---- MODULE Spec2Model ----
(***************************************************************************)
(* AsinPush: ingest (asin_pusher.py), connection broker                    *)
(* (connection_manager.py) and result verification (result_verifier.py).   *)
(*                                                                         *)
(* A Python str is a sequence of one-character strings; None is <<>> for   *)
(* an absent parse and 0 for an absent handle.                             *)
(***************************************************************************)
EXTENDS Integers, Sequences, FiniteSets, TLC

VARIABLES
    \* ---- ASINPusher.read_asin_file -------------------------------------
    file_exists,    \* os.path.exists(file_path)
    file,           \* the lines of the input file, in order, untrimmed
    line_num,       \* lines consumed so far by the for loop
    line,           \* the loop's `line` after line.strip()
    parsed,         \* <<what _parse_asin_line returned for `line`>>, NoParse when not called
    asin_data,      \* the list being built: records [asin, site]
    read_pc,        \* "reading" | "done" | "raised"
    \* ---- ASINPusher.push_to_redis --------------------------------------
    redis_set,      \* the members of the set at redis_key
    formatted_data, \* the batch of the latest push_to_redis call
    push_result,    \* <<the dict it returned>>, <<>> before the first call
    pushes,         \* push_to_redis calls so far
    yielded,        \* <<what redis_connection() yielded to the latest caller>>
    redis_commands, \* commands sent through queue clients so far
    \* ---- ConnectionManager ---------------------------------------------
    cm,             \* the broker's handles: _redis_client, _ssh_tunnel, _db_client,
                    \* _db_ssh_tunnel, _oss_client (None or an object id)
    open_tunnels,   \* SSH tunnels started and not closed: [id, port]
    live_clients,   \* clients created and not closed: [id, res]
    next_id,        \* the id of the next object created
    scopes,         \* the `with` blocks entered and not left, innermost last:
                    \* [res, client], client being what the scope yielded
    last_op,        \* the latest scope entry or exit
    mysql_available,    \* MYSQL_AVAILABLE
    oss_available,      \* OSS_AVAILABLE
    \* ---- ResultVerifier.verify_database --------------------------------
    asin_list,      \* the identifiers to verify, as canonical strings
    db_rows,        \* the rows of the status table: [asin, site]
    verification_method,    \* db_config['verification_method']
    db_i,           \* the loop's i: where the next page starts (0-based)
    processed_asins,
    pending_asins,
    queries,        \* the pages queried so far: [first, last], 1-based positions
    db_result,      \* <<the dict verify_database returned>>, <<>> while running
    db_pc,          \* "start" | "entered" | "done"
    \* ---- ResultVerifier.verify_oss -------------------------------------
    oss_objects,    \* the keys that exist in the bucket
    oss_raises,     \* the keys for which object_exists raises
    image_verification_mode,    \* oss_config['image_verification_mode']
    sub_image_count,            \* oss_config['sub_image_count']
    oss_k,          \* identifiers of asin_list checked so far
    successful_asins,
    failed_asins,
    oss_result,     \* <<the dict verify_oss returned>>, <<>> while running
    oss_pc,         \* "start" | "entered" | "done"
    \* ---- ResultVerifier.verify_all ------------------------------------
    now,            \* time.time(), in seconds
    va_start,       \* verify_all's start_time
    va_result,      \* <<the dict verify_all returned>>, <<>> while running
    va_pc,          \* "idle" | "running" | "done"
    \* ---- ResultVerifier.export_asin_data, _fetch_full_asin_data --------
    ex_i,           \* the fetch loop's i: where the next page starts (0-based)
    all_data,       \* the row dicts fetched so far: [asin, site, full_asin]
    ex_queries,     \* the pages queried so far: [first, last, raised]
    ex_k,           \* identifiers of asin_list the write loop has handled
    found_asins,    \* the loop's found_count
    exported_files, \* the list of [filename, asin, size]
    total_file_size,
    writes,         \* the names of the files opened for writing, in order
    export_result,  \* <<the dict export_asin_data returned>>, <<>> while running
    ex_pc,          \* "idle" | "start" | "fetching" | "fetched" | "done"
    \* ---- ResultVerifier.wait_for_completion ---------------------------
    check_interval, \* the argument, in seconds
    max_wait,       \* 30 * asin_count + 20
    start_time,
    check_count,
    exports,        \* export_asin_data calls made by wait_for_completion
    wait_result,    \* <<the dict wait_for_completion returned>>, <<>> while running
    wait_pc,        \* "idle" | "loop" | "checking" | "exporting" | "done"
    \* ---- asin_to_redis_optimized.py: main and the four handlers --------
    command,        \* args.command
    yes,            \* args.yes
    wait_flag,      \* args.wait
    answer,         \* <<what the user typed at the prompt>>, <<>> if not asked
    run_result,     \* <<the dict ASINPusher.run returned>>, <<>> before
    caught,         \* an `except Exception` of a handler or of run caught something
    uncaught,       \* an exception left the handler
    exit_code,      \* <<the process's exit status>>, <<>> while running
    cli_pc          \* "start" | "run" | "wait" | "read" | "verify" | "export" | "exited"

ingestVars == <<file_exists, file, line_num, line, parsed, asin_data, read_pc>>

pushVars == <<redis_set, formatted_data, push_result, pushes, yielded, redis_commands>>

connVars ==
    <<cm, open_tunnels, live_clients, next_id, scopes, last_op, mysql_available,
      oss_available>>

dbVars ==
    <<db_rows, verification_method, db_i, processed_asins, pending_asins, queries,
      db_result, db_pc>>

ossVars ==
    <<oss_objects, oss_raises, image_verification_mode, sub_image_count, oss_k,
      successful_asins, failed_asins, oss_result, oss_pc>>

verifyAllVars == <<now, va_start, va_result, va_pc>>

\* the components that call the ones above
exportVars ==
    <<ex_i, all_data, ex_queries, ex_k, found_asins, exported_files, total_file_size,
      writes, export_result, ex_pc>>

waitVars ==
    <<check_interval, max_wait, start_time, check_count, exports, wait_result, wait_pc>>

cliVars ==
    <<command, yes, wait_flag, answer, run_result, caught, uncaught, exit_code, cli_pc>>

laterVars == <<verifyAllVars, exportVars, waitVars, cliVars>>

vars == <<ingestVars, pushVars, connVars, asin_list, dbVars, ossVars, laterVars>>

\* what the actions of one component leave alone
offIngest == <<pushVars, connVars, asin_list, dbVars, ossVars, laterVars>>

offPush == <<ingestVars, asin_list, dbVars, ossVars, laterVars>>

offConn == <<ingestVars, pushVars, asin_list, dbVars, ossVars, laterVars>>

offDb == <<ingestVars, pushVars, asin_list, ossVars, laterVars>>

offOss == <<ingestVars, pushVars, asin_list, dbVars, laterVars>>

(***************************************************************************)
(* Bounds                                                                  *)
(***************************************************************************)
MaxLineLen == 4     \* longest raw line of a one-line file
MaxLines == 3       \* most lines of a file built from SampleLines
MaxBatch == 3       \* longest batch pushed
MaxPushes == 2      \* push_to_redis calls in one behaviour
MaxDepth == 3       \* `with` blocks of one broker open at once
MaxObjects == 6     \* tunnels and clients created in one behaviour
MaxAsins == 201     \* longest list given to verify_database
MaxOssAsins == 2    \* longest list given to verify_oss
MaxSubImages == 1   \* largest sub_image_count configured
MaxAllAsins == 2    \* longest list given to verify_all
MaxCheckTime == 4   \* longest one verify_all call takes, in seconds
MaxExportAsins == 201   \* longest list given to export_asin_data
MaxWaitAsins == 1   \* longest list given to wait_for_completion
MaxOversleep == 1   \* most seconds time.sleep returns late

(***************************************************************************)
(* Python str operations                                                   *)
(***************************************************************************)
Range(s) == {s[i] : i \in 1..Len(s)}

IsSpace(c) == c \in {" ", "\t"}

\* str.upper(), per character
UpperChar(c) ==
    CASE c = "b" -> "B"
      [] c = "u" -> "U"
      [] c = "s" -> "S"
      [] OTHER -> c

Upper(s) == [i \in 1..Len(s) |-> UpperChar(s[i])]

RECURSIVE LStrip(_)
LStrip(s) == IF s # <<>> /\ IsSpace(Head(s)) THEN LStrip(Tail(s)) ELSE s

RECURSIVE RStrip(_)
RStrip(s) ==
    IF s # <<>> /\ IsSpace(s[Len(s)]) THEN RStrip(SubSeq(s, 1, Len(s) - 1)) ELSE s

\* str.strip()
Strip(s) == RStrip(LStrip(s))

\* `c in s`
Contains(s, c) == c \in Range(s)

\* s.find(c) + 1, for a c that occurs in s
RECURSIVE Find(_, _)
Find(s, c) == IF Head(s) = c THEN 1 ELSE 1 + Find(Tail(s), c)

\* s.split(c, 1), for a c that occurs in s
Split1(s, c) ==
    LET i == Find(s, c) IN <<SubSeq(s, 1, i - 1), SubSeq(s, i + 1, Len(s))>>

\* s.startswith(c)
StartsWith(s, c) == s # <<>> /\ Head(s) = c

(***************************************************************************)
(* ASINPusher._parse_asin_line                                             *)
(***************************************************************************)
NoParse == <<>>

US == <<"U", "S">>

Separators == <<",", "\t", " ">>

\* the for loop over separators, from the k-th on
RECURSIVE parse_separators(_, _)
parse_separators(l, k) ==
    IF k > Len(Separators)
    THEN [asin |-> Strip(l), site |-> US]
    ELSE IF Contains(l, Separators[k])
         THEN LET parts == Split1(l, Separators[k])
              IN  [asin |-> Strip(parts[1]),
                   site |-> IF Len(parts) > 1 THEN Upper(Strip(parts[2])) ELSE US]
         ELSE parse_separators(l, k + 1)

\* a plausible slip: the space tried before the comma, the site left as typed
parse_asin_line_spacefirst(l) ==
    IF Contains(l, "@")
    THEN LET parts == Split1(l, "@")
         IN  [asin |-> Strip(parts[2]), site |-> Upper(Strip(parts[1]))]
    ELSE IF Contains(l, " ")
         THEN LET parts == Split1(l, " ")
              IN  [asin |-> Strip(parts[1]), site |-> Upper(Strip(parts[2]))]
         ELSE parse_separators(l, 1)

parse_asin_line(l) ==
    IF Contains(l, "@")
    THEN LET parts == Split1(l, "@")
         IN  [asin |-> Strip(parts[2]), site |-> Upper(Strip(parts[1]))]
    ELSE parse_separators(l, 1)

\* f"{item['site']}@{item['asin']}"
format_asin(item) == item.site \o <<"@">> \o item.asin

\* ASINPusher.format_asin_data
format_asin_data(data) == [i \in 1..Len(data) |-> format_asin(data[i])]

(***************************************************************************)
(* Input files                                                             *)
(***************************************************************************)
Chars == {"@", ",", "\t", " ", "#", "b", "B"}

SeqsUpTo(S, n) == UNION {[1..k -> S] : k \in 0..n}

\* the file of test_asin_pusher
TestFile ==
    << <<"B","0","C","X","C","P","T","W","7","G",",","U","S">>,
       <<"B","0","C","X","C","P","T","W","7","H",",","U","K">>,
       <<"#"," ","c">>,
       <<"B","0","C","X","C","P","T","W","7","I",",","D","E">> >>

SampleLines ==
    { <<>>, <<" ", "\t">>, <<"#", "b">>, <<" ", "#">>,
      <<"b", ",", "u", "s">>, <<"b">>, <<",", "B">>, <<"B", "@">> }

Files ==
    {<<l>> : l \in SeqsUpTo(Chars, MaxLineLen)}
        \cup SeqsUpTo(SampleLines, MaxLines)
        \cup {TestFile}

(***************************************************************************)
(* ASINPusher.read_asin_file, one loop iteration per step                  *)
(***************************************************************************)
\* the components a specification does not exercise stay as constructed
IngestIdle ==
    /\ file_exists = TRUE
    /\ file = <<>>
    /\ line_num = 0
    /\ line = <<>>
    /\ parsed = NoParse
    /\ asin_data = <<>>
    /\ read_pc = "reading"

IngestInit ==
    /\ file_exists \in BOOLEAN
    /\ file \in (IF file_exists THEN Files ELSE {<<>>})
    /\ line_num = 0
    /\ line = <<>>
    /\ parsed = NoParse
    /\ asin_data = <<>>
    /\ read_pc = "reading"

\* a plausible slip: every parsed line kept, the `if asin:` test forgotten
read_keep(data, p) == Append(data, p)

\* `if asin: asin_data.append(...)`
read_append(data, p) == IF p.asin # <<>> THEN Append(data, p) ELSE data

\* a plausible slip: a missing file read as an empty one
ReadMissingAsEmpty ==
    /\ read_pc = "reading"
    /\ ~file_exists
    /\ read_pc' = "done"
    /\ UNCHANGED <<file_exists, file, line_num, line, parsed, asin_data>>
    /\ UNCHANGED offIngest

\* `if not os.path.exists(file_path): raise FileNotFoundError(...)`
ReadMissing ==
    /\ read_pc = "reading"
    /\ ~file_exists
    /\ read_pc' = "raised"
    /\ UNCHANGED <<file_exists, file, line_num, line, parsed, asin_data>>
    /\ UNCHANGED offIngest

\* a blank or comment line: `continue`
ReadSkip ==
    /\ read_pc = "reading"
    /\ file_exists
    /\ line_num < Len(file)
    /\ LET l == Strip(file[line_num + 1])
       IN  /\ l = <<>> \/ StartsWith(l, "#")
           /\ line' = l
    /\ line_num' = line_num + 1
    /\ parsed' = NoParse
    /\ UNCHANGED <<file_exists, file, asin_data, read_pc>>
    /\ UNCHANGED offIngest

\* any other line: parsed, and appended when its asin is not empty
ReadParse ==
    /\ read_pc = "reading"
    /\ file_exists
    /\ line_num < Len(file)
    /\ LET l == Strip(file[line_num + 1])
       IN  /\ ~(l = <<>> \/ StartsWith(l, "#"))
           /\ line' = l
           /\ parsed' = <<parse_asin_line(l)>>
           /\ asin_data' = read_append(asin_data, parse_asin_line(l))
    /\ line_num' = line_num + 1
    /\ UNCHANGED <<file_exists, file, read_pc>>
    /\ UNCHANGED offIngest

\* the loop is over: `return asin_data`
ReadReturn ==
    /\ read_pc = "reading"
    /\ file_exists
    /\ line_num = Len(file)
    /\ read_pc' = "done"
    /\ UNCHANGED <<file_exists, file, line_num, line, parsed, asin_data>>
    /\ UNCHANGED offIngest

(***************************************************************************)
(* ConnectionManager                                                       *)
(***************************************************************************)
None == 0

local_ports == [redis |-> 16379, db |-> 13306]

\* the broker and the objects it has created, as one value
World == [cm |-> cm, tunnels |-> open_tunnels, clients |-> live_clients, next |-> next_id]

\* what can happen in _connect_redis, _connect_database and _connect_oss
RedisOutcomes == {"ok", "tunnel_init_fails", "tunnel_start_fails", "ping_fails"}

DbOutcomes ==
    {"ok", "tunnel_init_fails", "tunnel_start_fails", "connect_fails", "query_fails"}

OssOutcomes == {"ok", "bucket_init_fails", "bucket_info_fails"}

\* a plausible slip: the client closed, the tunnel forgotten
close_redis_client_only(w) ==
    IF w.cm.redis_client # None
    THEN [w EXCEPT !.clients = {c \in @ : c.id # w.cm.redis_client},
                   !.cm.redis_client = None]
    ELSE w

\* ConnectionManager._close_redis
close_redis(w) ==
    LET w1 == IF w.cm.redis_client # None
              THEN [w EXCEPT !.clients = {c \in @ : c.id # w.cm.redis_client},
                             !.cm.redis_client = None]
              ELSE w
    IN  IF w1.cm.ssh_tunnel # None
        THEN [w1 EXCEPT !.tunnels = {t \in @ : t.id # w1.cm.ssh_tunnel},
                        !.cm.ssh_tunnel = None]
        ELSE w1

\* ConnectionManager._close_database
close_database(w) ==
    LET w1 == IF w.cm.db_client # None
              THEN [w EXCEPT !.clients = {c \in @ : c.id # w.cm.db_client},
                             !.cm.db_client = None]
              ELSE w
    IN  IF w1.cm.db_ssh_tunnel # None
        THEN [w1 EXCEPT !.tunnels = {t \in @ : t.id # w1.cm.db_ssh_tunnel},
                        !.cm.db_ssh_tunnel = None]
        ELSE w1

\* _connect_redis past the `if self._redis_client` test
redis_connect_fresh(w, outcome) ==
    LET \* self._ssh_tunnel = SSHTunnelForwarder(...)
        made == [w EXCEPT !.cm.ssh_tunnel = w.next, !.next = @ + 1]
        \* self._ssh_tunnel.start()
        started == [made EXCEPT
                      !.tunnels = @ \cup {[id |-> w.next, port |-> local_ports.redis]}]
        \* self._redis_client = redis.Redis(...)
        client == [started EXCEPT
                      !.cm.redis_client = started.next,
                      !.clients = @ \cup {[id |-> started.next, res |-> "redis"]},
                      !.next = @ + 1]
    IN  CASE outcome = "tunnel_init_fails" -> close_redis(w)
          [] outcome = "tunnel_start_fails" -> close_redis(made)
          [] outcome = "ping_fails" -> close_redis(client)
          [] OTHER -> client

\* a plausible slip: no `if self._redis_client: return True`
connect_redis_always(w, outcome) == redis_connect_fresh(w, outcome)

\* ConnectionManager._connect_redis
connect_redis(w, outcome) ==
    IF w.cm.redis_client # None THEN w ELSE redis_connect_fresh(w, outcome)

\* ConnectionManager._connect_database
connect_database(w, outcome, available) ==
    LET made == [w EXCEPT !.cm.db_ssh_tunnel = w.next, !.next = @ + 1]
        started == [made EXCEPT
                      !.tunnels = @ \cup {[id |-> w.next, port |-> local_ports.db]}]
        client == [started EXCEPT
                      !.cm.db_client = started.next,
                      !.clients = @ \cup {[id |-> started.next, res |-> "db"]},
                      !.next = @ + 1]
    IN  IF w.cm.db_client # None THEN w
        ELSE IF ~available THEN w
        ELSE CASE outcome = "tunnel_init_fails" -> close_database(w)
               [] outcome = "tunnel_start_fails" -> close_database(made)
               [] outcome = "connect_fails" -> close_database(started)
               [] outcome = "query_fails" -> close_database(client)
               [] OTHER -> client

\* ConnectionManager._connect_oss: no tunnel, and nothing is undone on failure
connect_oss(w, outcome, available) ==
    LET client == [w EXCEPT
                      !.cm.oss_client = w.next,
                      !.clients = @ \cup {[id |-> w.next, res |-> "oss"]},
                      !.next = @ + 1]
    IN  IF w.cm.oss_client # None THEN w
        ELSE IF ~available THEN w
        ELSE CASE outcome = "bucket_init_fails" -> w
               [] OTHER -> client   \* "bucket_info_fails" and "ok" alike

\* a plausible slip: the test of the yielded client forgotten
falsy_never(client) == FALSE

\* `if not client`, of what a scope yielded
falsy(client) == client = None

\* how a scope entry went: the live client reused, a connection made, or none
EntryResult(handle, outcome, available) ==
    IF handle # None THEN "reused"
    ELSE IF available /\ outcome = "ok" THEN "connected"
    ELSE "failed"

\* ConnectionManager.__init__
ConnNew ==
    /\ cm = [redis_client |-> None, ssh_tunnel |-> None, db_client |-> None,
             db_ssh_tunnel |-> None, oss_client |-> None]
    /\ open_tunnels = {}
    /\ live_clients = {}
    /\ next_id = 1
    /\ scopes = <<>>
    /\ last_op = [op |-> "init"]

ConnIdle == ConnNew /\ mysql_available = TRUE /\ oss_available = TRUE

\* the two optional imports succeed or not
ConnInit == ConnNew /\ mysql_available \in BOOLEAN /\ oss_available \in BOOLEAN

SetWorld(w) ==
    /\ cm' = w.cm
    /\ open_tunnels' = w.tunnels
    /\ live_clients' = w.clients
    /\ next_id' = w.next

CanEnter == Len(scopes) < MaxDepth /\ next_id + 1 <= MaxObjects

Innermost == scopes[Len(scopes)]

\* redis_connection(): _connect_redis(), then `yield self._redis_client`
RedisEnter ==
    /\ CanEnter
    /\ \E outcome \in RedisOutcomes :
          LET w == connect_redis(World, outcome)
          IN  /\ SetWorld(w)
              /\ scopes' = Append(scopes, [res |-> "redis", client |-> w.cm.redis_client])
              /\ last_op' = [op |-> "enter", res |-> "redis",
                             result |-> EntryResult(cm.redis_client, outcome, TRUE)]
    /\ UNCHANGED <<mysql_available, oss_available>>
    /\ UNCHANGED offConn

\* the body returns or raises: `finally: self._close_redis()`
RedisExit ==
    /\ scopes # <<>>
    /\ Innermost.res = "redis"
    /\ SetWorld(close_redis(World))
    /\ scopes' = SubSeq(scopes, 1, Len(scopes) - 1)
    /\ \E how \in {"return", "raise"} :
          last_op' = [op |-> "exit", res |-> "redis", result |-> how]
    /\ UNCHANGED <<mysql_available, oss_available>>
    /\ UNCHANGED offConn

\* database_connection(): _connect_database(), then `yield self._db_client`
DatabaseEnter ==
    /\ CanEnter
    /\ \E outcome \in DbOutcomes :
          LET w == connect_database(World, outcome, mysql_available)
          IN  /\ SetWorld(w)
              /\ scopes' = Append(scopes, [res |-> "db", client |-> w.cm.db_client])
              /\ last_op' = [op |-> "enter", res |-> "db",
                             result |-> EntryResult(cm.db_client, outcome, mysql_available)]
    /\ UNCHANGED <<mysql_available, oss_available>>
    /\ UNCHANGED offConn

\* `finally: self._close_database()`
DatabaseExit ==
    /\ scopes # <<>>
    /\ Innermost.res = "db"
    /\ SetWorld(close_database(World))
    /\ scopes' = SubSeq(scopes, 1, Len(scopes) - 1)
    /\ \E how \in {"return", "raise"} :
          last_op' = [op |-> "exit", res |-> "db", result |-> how]
    /\ UNCHANGED <<mysql_available, oss_available>>
    /\ UNCHANGED offConn

\* oss_connection(): _connect_oss(), then `yield self._oss_client`
OssEnter ==
    /\ CanEnter
    /\ \E outcome \in OssOutcomes :
          LET w == connect_oss(World, outcome, oss_available)
          IN  /\ SetWorld(w)
              /\ scopes' = Append(scopes, [res |-> "oss", client |-> w.cm.oss_client])
              /\ last_op' = [op |-> "enter", res |-> "oss",
                             result |-> EntryResult(cm.oss_client, outcome, oss_available)]
    /\ UNCHANGED <<mysql_available, oss_available>>
    /\ UNCHANGED offConn

\* `finally: pass`
OssExit ==
    /\ scopes # <<>>
    /\ Innermost.res = "oss"
    /\ scopes' = SubSeq(scopes, 1, Len(scopes) - 1)
    /\ \E how \in {"return", "raise"} :
          last_op' = [op |-> "exit", res |-> "oss", result |-> how]
    /\ UNCHANGED <<cm, open_tunnels, live_clients, next_id, mysql_available, oss_available>>
    /\ UNCHANGED offConn

(***************************************************************************)
(* ASINPusher.push_to_redis                                                *)
(***************************************************************************)
\* the canonical strings of the identifiers pushed
PushIds ==
    { <<"U", "S", "@", "b">>, <<"U", "K", "@", "b">>, <<"U", "S", "@", "c">> }

Batches == SeqsUpTo(PushIds, MaxBatch)

\* redis SCARD
scard(set) == Cardinality(set)

\* a plausible slip: every member sent counted as added
sadd_count_sent(set, members) ==
    [set |-> set \cup Range(members), added |-> Len(members)]

\* redis SADD key m1 m2 ...: the members are added one by one, and the reply
\* counts those that were not yet in the set
RECURSIVE sadd(_, _)
sadd(set, members) ==
    IF members = <<>>
    THEN [set |-> set, added |-> 0]
    ELSE LET m == Head(members)
             rest == sadd(set \cup {m}, Tail(members))
         IN  [set |-> rest.set,
              added |-> rest.added + (IF m \in set THEN 0 ELSE 1)]

PushIdle ==
    /\ redis_set = {}
    /\ formatted_data = <<>>
    /\ push_result = <<>>
    /\ pushes = 0
    /\ yielded = <<>>
    /\ redis_commands = 0

PushInit ==
    /\ redis_set \in SUBSET PushIds
    /\ formatted_data = <<>>
    /\ push_result = <<>>
    /\ pushes = 0
    /\ yielded = <<>>
    /\ redis_commands = 0

\* `if not formatted_data`: nothing to push, no connection opened
PushEmpty ==
    /\ pushes < MaxPushes
    /\ formatted_data' = <<>>
    /\ push_result' = <<[success |-> FALSE, message |-> "no data to push"]>>
    /\ pushes' = pushes + 1
    /\ UNCHANGED <<redis_set, yielded, redis_commands>>
    /\ UNCHANGED connVars
    /\ UNCHANGED offPush

\* redis_connection() yielded None: `if not redis_client`; the scope is left
PushNoClientOf(batch) ==
    /\ pushes < MaxPushes
    /\ batch # <<>>
    /\ \E outcome \in RedisOutcomes :
          LET w == connect_redis(World, outcome)
          IN  /\ falsy(w.cm.redis_client)
              /\ yielded' = <<w.cm.redis_client>>
              /\ formatted_data' = batch
              /\ SetWorld(close_redis(w))
    /\ push_result' = <<[success |-> FALSE, message |-> "redis connection failed"]>>
    /\ pushes' = pushes + 1
    /\ UNCHANGED <<redis_set, redis_commands>>
    /\ UNCHANGED <<scopes, last_op, mysql_available, oss_available>>
    /\ UNCHANGED offPush

PushNoClient == \E batch \in Batches : PushNoClientOf(batch)

\* scard, sadd of the whole batch, scard; leaving the scope closes the connection
PushToRedisOf(batch) ==
    /\ pushes < MaxPushes
    /\ batch # <<>>
    /\ \E outcome \in RedisOutcomes :
          LET w == connect_redis(World, outcome)
              current_count == scard(redis_set)
              reply == sadd(redis_set, batch)
              new_count == scard(reply.set)
          IN  /\ ~falsy(w.cm.redis_client)
              /\ yielded' = <<w.cm.redis_client>>
              /\ formatted_data' = batch
              /\ redis_set' = reply.set
              /\ push_result' =
                    <<[success |-> TRUE,
                       pushed_count |-> Len(batch),
                       added_count |-> reply.added,
                       duplicate_count |-> Len(batch) - reply.added,
                       total_count |-> new_count]>>
              /\ SetWorld(close_redis(w))
    /\ redis_commands' = redis_commands + 3
    /\ pushes' = pushes + 1
    /\ UNCHANGED <<scopes, last_op, mysql_available, oss_available>>
    /\ UNCHANGED offPush

PushToRedis == \E batch \in Batches : PushToRedisOf(batch)

\* ASINPusher.test_connection: scard when there is a client
TestConnection ==
    /\ \E outcome \in RedisOutcomes :
          LET w == connect_redis(World, outcome)
          IN  /\ yielded' = <<w.cm.redis_client>>
              /\ redis_commands' =
                    IF falsy(w.cm.redis_client) THEN redis_commands ELSE redis_commands + 1
              /\ SetWorld(close_redis(w))
    /\ UNCHANGED <<redis_set, formatted_data, push_result, pushes>>
    /\ UNCHANGED <<scopes, last_op, mysql_available, oss_available>>

(***************************************************************************)
(* ResultVerifier.verify_database                                          *)
(***************************************************************************)
batch_size == 100

\* `if '@' in item: site, asin = item.split('@', 1)  else: site, asin = 'US', item`
check_item(item) ==
    IF Contains(item, "@")
    THEN LET parts == Split1(item, "@")
         IN  [site |-> parts[1], asin |-> parts[2], full |-> item]
    ELSE [site |-> US, asin |-> item, full |-> item]

\* check_items[i:i+batch_size]
PageOf(list, i) ==
    LET last == IF i + batch_size < Len(list) THEN i + batch_size ELSE Len(list)
    IN  [k \in 1..(last - i) |-> check_item(list[i + k])]

\* the rows SELECT ... WHERE (asin = .. AND site = ..) OR ... returns
select_rows(rows, batch) ==
    {r \in rows : \E k \in 1..Len(batch) :
                     r.asin = batch[k].asin /\ r.site = batch[k].site}

\* found_items: key = f"{row[1]}@{row[0]}"
found_items(results) == {r.site \o <<"@">> \o r.asin : r \in results}

\* the identifiers of a batch whose `full` is (or is not) a key of found_items
RECURSIVE classify(_, _, _)
classify(batch, found, hit) ==
    IF batch = <<>> THEN <<>>
    ELSE (IF (Head(batch).full \in found) = hit THEN <<Head(batch).full>> ELSE <<>>)
            \o classify(Tail(batch), found, hit)

\* the identifier strings verified against the status table
DbIds == { <<"U", "S", "@", "b">>, <<"b">>, <<"U", "K", "@", "b">> }

DbRows == { [asin |-> <<"b">>, site |-> US], [asin |-> <<"b">>, site |-> <<"U", "K">>] }

\* a list of n identifiers, a and b in turn
Alternating(n, a, b) == [k \in 1..n |-> IF k % 2 = 1 THEN a ELSE b]

DbIdle ==
    /\ db_rows = {}
    /\ verification_method = "existence"
    /\ db_i = 0
    /\ processed_asins = <<>>
    /\ pending_asins = <<>>
    /\ queries = <<>>
    /\ db_result = <<>>
    /\ db_pc = "start"

DbInit ==
    /\ \E n \in 0..MaxAsins, a \in DbIds, b \in DbIds : asin_list = Alternating(n, a, b)
    /\ db_rows \in SUBSET DbRows
    /\ verification_method \in {"existence", "status"}
    /\ db_i = 0
    /\ processed_asins = <<>>
    /\ pending_asins = <<>>
    /\ queries = <<>>
    /\ db_result = <<>>
    /\ db_pc = "start"

\* `with self.connection.database_connection() as db_client`
DbScopeEnter(outcome) ==
    LET w == connect_database(World, outcome, mysql_available)
    IN  /\ SetWorld(w)
        /\ scopes' = Append(scopes, [res |-> "db", client |-> w.cm.db_client])
        /\ last_op' = [op |-> "enter", res |-> "db",
                       result |-> EntryResult(cm.db_client, outcome, mysql_available)]

\* the `with` block is left, by return or by an exception
DbScopeExit(how) ==
    /\ SetWorld(close_database(World))
    /\ scopes' = SubSeq(scopes, 1, Len(scopes) - 1)
    /\ last_op' = [op |-> "exit", res |-> "db", result |-> how]

\* the scope entered, the connection going one of the ways of `outcomes`
VerifyDbEnterWith(outcomes) ==
    /\ db_pc = "start"
    /\ \E outcome \in outcomes : DbScopeEnter(outcome)
    /\ db_pc' = "entered"
    /\ UNCHANGED <<db_rows, verification_method, db_i, processed_asins, pending_asins,
                   queries, db_result>>
    /\ UNCHANGED <<mysql_available, oss_available>>
    /\ UNCHANGED offDb

VerifyDbEnter == VerifyDbEnterWith(DbOutcomes)

\* a plausible slip: a missing client raised as an error
VerifyDbNoClientRaises ==
    /\ db_pc = "entered"
    /\ falsy(Innermost.client)
    /\ db_result' = <<[raised |-> TRUE]>>
    /\ DbScopeExit("raise")
    /\ db_pc' = "done"
    /\ UNCHANGED <<db_rows, verification_method, db_i, processed_asins, pending_asins,
                   queries>>
    /\ UNCHANGED <<mysql_available, oss_available>>
    /\ UNCHANGED offDb

\* `if not db_client: return {'success': False, ...}`
VerifyDbNoClient ==
    /\ db_pc = "entered"
    /\ falsy(Innermost.client)
    /\ db_result' = <<[success |-> FALSE, message |-> "database connection failed"]>>
    /\ DbScopeExit("return")
    /\ db_pc' = "done"
    /\ UNCHANGED <<db_rows, verification_method, db_i, processed_asins, pending_asins,
                   queries>>
    /\ UNCHANGED <<mysql_available, oss_available>>
    /\ UNCHANGED offDb

\* one iteration of `for i in range(0, len(check_items), batch_size)`
VerifyDbPage ==
    /\ db_pc = "entered"
    /\ ~falsy(Innermost.client)
    /\ db_i < Len(asin_list)
    /\ LET batch == PageOf(asin_list, db_i)
           found == found_items(select_rows(db_rows, batch))
       IN  IF verification_method = "existence"
           THEN /\ queries' = Append(queries, [first |-> db_i + 1, last |-> db_i + Len(batch)])
                /\ processed_asins' = processed_asins \o classify(batch, found, TRUE)
                /\ pending_asins' = pending_asins \o classify(batch, found, FALSE)
           ELSE UNCHANGED <<queries, processed_asins, pending_asins>>
    /\ db_i' = db_i + batch_size
    /\ UNCHANGED <<db_rows, verification_method, db_result, db_pc>>
    /\ UNCHANGED connVars
    /\ UNCHANGED offDb

\* cursor.execute(sql) raises: nothing catches it, the scope is left
VerifyDbQueryRaises ==
    /\ db_pc = "entered"
    /\ ~falsy(Innermost.client)
    /\ db_i < Len(asin_list)
    /\ verification_method = "existence"
    /\ db_result' = <<[raised |-> TRUE]>>
    /\ DbScopeExit("raise")
    /\ db_pc' = "done"
    /\ UNCHANGED <<db_rows, verification_method, db_i, processed_asins, pending_asins,
                   queries>>
    /\ UNCHANGED <<mysql_available, oss_available>>
    /\ UNCHANGED offDb

\* the loop is over: the result dict, and the scope is left
VerifyDbReturn ==
    /\ db_pc = "entered"
    /\ ~falsy(Innermost.client)
    /\ db_i >= Len(asin_list)
    /\ db_result' =
          <<[success |-> Len(pending_asins) = 0,
             processed_count |-> Len(processed_asins),
             total_count |-> Len(asin_list),
             processed_asins |-> processed_asins,
             pending_asins |-> pending_asins,
             failed_asins |-> <<>>]>>
    /\ DbScopeExit("return")
    /\ db_pc' = "done"
    /\ UNCHANGED <<db_rows, verification_method, db_i, processed_asins, pending_asins,
                   queries>>
    /\ UNCHANGED <<mysql_available, oss_available>>
    /\ UNCHANGED offDb

(***************************************************************************)
(* ResultVerifier.verify_oss                                               *)
(***************************************************************************)
\* the key patterns of the configuration; a placeholder is one token
main_image_pattern == <<"{site}", "/", "{asin}", ".jpg">>

sub_image_pattern == <<"{site}", "/", "{asin}", "_", "{index}", ".jpg">>

\* str.replace(old, new), old being one token
RECURSIVE Replace(_, _, _)
Replace(s, old, new) ==
    IF s = <<>> THEN <<>>
    ELSE (IF Head(s) = old THEN new ELSE <<Head(s)>>) \o Replace(Tail(s), old, new)

Digits == <<"0", "1", "2", "3", "4", "5", "6", "7", "8", "9">>

\* str(i), i >= 0
RECURSIVE Str(_)
Str(i) == IF i < 10 THEN <<Digits[i + 1]>> ELSE Str(i \div 10) \o <<Digits[(i % 10) + 1]>>

main_file(asin, site) ==
    Replace(Replace(main_image_pattern, "{asin}", asin), "{site}", site)

sub_file(asin, site, i) ==
    Replace(Replace(Replace(sub_image_pattern, "{asin}", asin), "{site}", site),
            "{index}", Str(i))

\* a plausible slip: the secondary images listed in every mode
get_files_for_asin_with_subs(asin, site, mode, count) ==
    <<main_file(asin, site)>> \o [i \in 1..count |-> sub_file(asin, site, i - 1)]

\* ResultVerifier._get_files_for_asin
get_files_for_asin(asin, site, mode, count) ==
    (IF mode \in {"main_only", "all_images", "any_image"}
     THEN <<main_file(asin, site)>> ELSE <<>>)
    \o (IF mode \in {"all_images", "any_image"}
        THEN [i \in 1..count |-> sub_file(asin, site, i - 1)] ELSE <<>>)

\* a plausible slip: one file found is enough in every mode
is_verification_successful_any(found_count, total_count, mode) ==
    mode \in {"main_only", "all_images", "any_image"} /\ found_count > 0

\* ResultVerifier._is_verification_successful
is_verification_successful(found_count, total_count, mode) ==
    CASE mode = "main_only" -> found_count > 0
      [] mode = "all_images" -> found_count = total_count
      [] mode = "any_image" -> found_count > 0
      [] OTHER -> FALSE

\* the loop over files_to_check: object_exists true counts, false or an
\* exception does not
RECURSIVE count_found(_, _, _)
count_found(files, objects, raises) ==
    IF files = <<>> THEN 0
    ELSE (IF Head(files) \notin raises /\ Head(files) \in objects THEN 1 ELSE 0)
            + count_found(Tail(files), objects, raises)

\* the identifier strings verified against the bucket
OssIds == { <<"U", "S", "@", "b">>, <<"c">> }

\* every key the patterns give for OssIds
OssKeys ==
    UNION { {main_file(check_item(id).asin, check_item(id).site)}
              \cup {sub_file(check_item(id).asin, check_item(id).site, i) :
                       i \in 0..(MaxSubImages - 1)} : id \in OssIds }

OssIdle ==
    /\ oss_objects = {}
    /\ oss_raises = {}
    /\ image_verification_mode = "main_only"
    /\ sub_image_count = 0
    /\ oss_k = 0
    /\ successful_asins = <<>>
    /\ failed_asins = <<>>
    /\ oss_result = <<>>
    /\ oss_pc = "start"

OssInit ==
    /\ asin_list \in SeqsUpTo(OssIds, MaxOssAsins)
    /\ oss_objects \in SUBSET OssKeys
    /\ oss_raises \in {{}} \cup {{key} : key \in OssKeys}
    /\ image_verification_mode \in {"main_only", "all_images", "any_image", "none"}
    /\ sub_image_count \in 0..MaxSubImages
    /\ oss_k = 0
    /\ successful_asins = <<>>
    /\ failed_asins = <<>>
    /\ oss_result = <<>>
    /\ oss_pc = "start"

\* `with self.connection.oss_connection() as oss_client`, the connection
\* going one of the ways of `outcomes`
VerifyOssEnterWith(outcomes) ==
    /\ oss_pc = "start"
    /\ \E outcome \in outcomes :
          LET w == connect_oss(World, outcome, oss_available)
          IN  /\ SetWorld(w)
              /\ scopes' = Append(scopes, [res |-> "oss", client |-> w.cm.oss_client])
              /\ last_op' = [op |-> "enter", res |-> "oss",
                             result |-> EntryResult(cm.oss_client, outcome, oss_available)]
    /\ oss_pc' = "entered"
    /\ UNCHANGED <<oss_objects, oss_raises, image_verification_mode, sub_image_count,
                   oss_k, successful_asins, failed_asins, oss_result>>
    /\ UNCHANGED <<mysql_available, oss_available>>
    /\ UNCHANGED offOss

VerifyOssEnter == VerifyOssEnterWith(OssOutcomes)

\* leaving the oss scope closes nothing
OssScopeExit ==
    /\ scopes' = SubSeq(scopes, 1, Len(scopes) - 1)
    /\ last_op' = [op |-> "exit", res |-> "oss", result |-> "return"]
    /\ UNCHANGED <<cm, open_tunnels, live_clients, next_id, mysql_available,
                   oss_available>>

\* `if not oss_client: return {'success': False, ...}`
VerifyOssNoClient ==
    /\ oss_pc = "entered"
    /\ falsy(Innermost.client)
    /\ oss_result' = <<[success |-> FALSE, message |-> "oss connection failed"]>>
    /\ OssScopeExit
    /\ oss_pc' = "done"
    /\ UNCHANGED <<oss_objects, oss_raises, image_verification_mode, sub_image_count,
                   oss_k, successful_asins, failed_asins>>
    /\ UNCHANGED offOss

\* one iteration of `for asin_item in asin_list`
VerifyOssCheck ==
    /\ oss_pc = "entered"
    /\ ~falsy(Innermost.client)
    /\ oss_k < Len(asin_list)
    /\ LET asin_item == asin_list[oss_k + 1]
           item == check_item(asin_item)
           files_to_check ==
               get_files_for_asin(item.asin, item.site, image_verification_mode,
                                  sub_image_count)
           found_count == count_found(files_to_check, oss_objects, oss_raises)
       IN  IF is_verification_successful(found_count, Len(files_to_check),
                                         image_verification_mode)
           THEN /\ successful_asins' = Append(successful_asins, asin_item)
                /\ UNCHANGED failed_asins
           ELSE /\ failed_asins' = Append(failed_asins, asin_item)
                /\ UNCHANGED successful_asins
    /\ oss_k' = oss_k + 1
    /\ UNCHANGED <<oss_objects, oss_raises, image_verification_mode, sub_image_count,
                   oss_result, oss_pc>>
    /\ UNCHANGED connVars
    /\ UNCHANGED offOss

\* the loop is over: the result dict
VerifyOssReturn ==
    /\ oss_pc = "entered"
    /\ ~falsy(Innermost.client)
    /\ oss_k = Len(asin_list)
    /\ oss_result' =
          <<[success |-> Len(failed_asins) = 0,
             successful_asins |-> successful_asins,
             failed_asins |-> failed_asins,
             total_count |-> Len(asin_list)]>>
    /\ OssScopeExit
    /\ oss_pc' = "done"
    /\ UNCHANGED <<oss_objects, oss_raises, image_verification_mode, sub_image_count,
                   oss_k, successful_asins, failed_asins>>
    /\ UNCHANGED offOss

(***************************************************************************)
(* ResultVerifier.verify_all                                               *)
(***************************************************************************)
\* d.get('success', False)
get_success(d) == IF "success" \in DOMAIN d THEN d.success ELSE FALSE

\* a plausible slip: either check succeeding is enough
overall_success_either(db, oss) == get_success(db) \/ get_success(oss)

\* db_result.get('success', False) and oss_result.get('success', False)
overall_success(db, oss) == get_success(db) /\ get_success(oss)

\* the seconds one verify_all call can take
CheckTimes == {0, MaxCheckTime}

\* the primary keys of OssIds
MainKeys == {main_file(check_item(id).asin, check_item(id).site) : id \in OssIds}

VerifyAllIdle ==
    /\ now = 0
    /\ va_start = 0
    /\ va_result = <<>>
    /\ va_pc = "idle"

\* the table, the bucket and the configuration verify_all runs against
VerifyAllInit ==
    /\ asin_list \in SeqsUpTo(OssIds, MaxAllAsins)
    /\ db_rows \in SUBSET DbRows
    /\ verification_method \in {"existence", "status"}
    /\ db_i = 0
    /\ processed_asins = <<>>
    /\ pending_asins = <<>>
    /\ queries = <<>>
    /\ db_result = <<>>
    /\ db_pc = "start"
    /\ oss_objects \in SUBSET MainKeys
    /\ oss_raises = {}
    /\ image_verification_mode = "main_only"
    /\ sub_image_count = 0
    /\ oss_k = 0
    /\ successful_asins = <<>>
    /\ failed_asins = <<>>
    /\ oss_result = <<>>
    /\ oss_pc = "start"
    /\ VerifyAllIdle

\* verify_database and verify_oss start with fresh locals
FreshChecks ==
    /\ db_i' = 0
    /\ processed_asins' = <<>>
    /\ pending_asins' = <<>>
    /\ queries' = <<>>
    /\ db_result' = <<>>
    /\ db_pc' = "start"
    /\ oss_k' = 0
    /\ successful_asins' = <<>>
    /\ failed_asins' = <<>>
    /\ oss_result' = <<>>
    /\ oss_pc' = "start"

\* verify_all is called: start_time = time.time()
VerifyAllBegin ==
    /\ va_start' = now
    /\ va_result' = <<>>
    /\ va_pc' = "running"
    /\ FreshChecks

VerifyAllCall ==
    /\ va_pc = "idle"
    /\ VerifyAllBegin
    /\ UNCHANGED <<now, asin_list, db_rows, verification_method, oss_objects, oss_raises,
                   image_verification_mode, sub_image_count>>
    /\ UNCHANGED <<ingestVars, pushVars, connVars, exportVars, waitVars, cliVars>>

\* db_result = self.verify_database(asin_list, db_timeout)
VerifyAllDatabaseWith(outcomes) ==
    /\ va_pc = "running"
    /\ \/ VerifyDbEnterWith(outcomes)
       \/ VerifyDbNoClient
       \/ VerifyDbPage
       \/ VerifyDbQueryRaises
       \/ VerifyDbReturn

VerifyAllDatabase == VerifyAllDatabaseWith(DbOutcomes)

\* oss_result = self.verify_oss(asin_list, oss_timeout), once verify_database
\* has returned
VerifyAllOssWith(outcomes) ==
    /\ va_pc = "running"
    /\ db_pc = "done"
    /\ "success" \in DOMAIN db_result[1]
    /\ \/ VerifyOssEnterWith(outcomes)
       \/ VerifyOssNoClient
       \/ VerifyOssCheck
       \/ VerifyOssReturn

VerifyAllOss == VerifyAllOssWith(OssOutcomes)

\* both checks have returned: the combined result; they took d seconds
VerifyAllReturn ==
    /\ va_pc = "running"
    /\ db_pc = "done"
    /\ oss_pc = "done"
    /\ \E d \in CheckTimes :
          /\ now' = now + d
          /\ va_result' =
                <<[success |-> overall_success(db_result[1], oss_result[1]),
                   database |-> db_result[1],
                   oss |-> oss_result[1],
                   duration |-> now + d - va_start,
                   asin_count |-> Len(asin_list)]>>
    /\ va_pc' = "done"
    /\ UNCHANGED va_start
    /\ UNCHANGED <<ingestVars, pushVars, connVars, asin_list, dbVars, ossVars, exportVars,
                   waitVars, cliVars>>

\* the exception of verify_database's query passes through verify_all
VerifyAllRaises ==
    /\ va_pc = "running"
    /\ db_pc = "done"
    /\ "raised" \in DOMAIN db_result[1]
    /\ \E d \in CheckTimes : now' = now + d
    /\ va_result' = <<[raised |-> TRUE]>>
    /\ va_pc' = "done"
    /\ UNCHANGED va_start
    /\ UNCHANGED <<ingestVars, pushVars, connVars, asin_list, dbVars, ossVars, exportVars,
                   waitVars, cliVars>>

(***************************************************************************)
(* ResultVerifier.export_asin_data and _fetch_full_asin_data               *)
(***************************************************************************)
\* cursor.fetchall(): the rows of a set as a list
RECURSIVE fetchall(_)
fetchall(rows) ==
    IF rows = {} THEN <<>>
    ELSE LET r == CHOOSE x \in rows : TRUE IN <<r>> \o fetchall(rows \ {r})

\* row_dict['full_asin'] = f"{site}@{asin}"
row_dict(r) == [asin |-> r.asin, site |-> r.site, full_asin |-> r.site \o <<"@">> \o r.asin]

row_dicts(results) == [k \in 1..Len(results) |-> row_dict(results[k])]

\* the keys of asin_data_map: the full_asin of every fetched row that has one
asin_data_map(data) == {data[k].full_asin : k \in {j \in 1..Len(data) : data[j].full_asin # <<>>}}

\* f"{site}-{pure_asin}.json"
filename_of(asin_item) ==
    check_item(asin_item).site \o <<"-">> \o check_item(asin_item).asin \o <<".json">>

\* os.path.getsize(filepath): the bytes of the JSON text, which grows with
\* the identifier's length
getsize(asin_item) == 2 * Len(asin_item) + Len(filename_of(asin_item))

\* the lengths of the lists exported: up to three identifiers, around one
\* page, and over two pages
ExportLens == {0, 1, 2, 3, batch_size, batch_size + 1, MaxExportAsins}

ExportIdle ==
    /\ ex_i = 0
    /\ all_data = <<>>
    /\ ex_queries = <<>>
    /\ ex_k = 0
    /\ found_asins = 0
    /\ exported_files = <<>>
    /\ total_file_size = 0
    /\ writes = <<>>
    /\ export_result = <<>>
    /\ ex_pc = "idle"

ExportInit ==
    /\ \E n \in ExportLens, a \in DbIds, b \in DbIds : asin_list = Alternating(n, a, b)
    /\ db_rows \in SUBSET DbRows
    /\ verification_method = "existence"
    /\ db_i = 0
    /\ processed_asins = <<>>
    /\ pending_asins = <<>>
    /\ queries = <<>>
    /\ db_result = <<>>
    /\ db_pc = "start"
    /\ ExportIdle

\* export_asin_data is called: the result folder is made
ExportBegin ==
    /\ ex_i' = 0
    /\ all_data' = <<>>
    /\ ex_queries' = <<>>
    /\ ex_k' = 0
    /\ found_asins' = 0
    /\ exported_files' = <<>>
    /\ total_file_size' = 0
    /\ writes' = <<>>
    /\ export_result' = <<>>
    /\ ex_pc' = "start"

offExport ==
    <<ingestVars, pushVars, asin_list, dbVars, ossVars, verifyAllVars, waitVars, cliVars>>

ExportCall ==
    /\ ex_pc = "idle"
    /\ ExportBegin
    /\ UNCHANGED connVars
    /\ UNCHANGED offExport

\* _fetch_full_asin_data: `with self.connection.database_connection() as db_client`
FetchEnterWith(outcomes) ==
    /\ ex_pc = "start"
    /\ \E outcome \in outcomes : DbScopeEnter(outcome)
    /\ ex_pc' = "fetching"
    /\ UNCHANGED <<ex_i, all_data, ex_queries, ex_k, found_asins, exported_files,
                   total_file_size, writes, export_result>>
    /\ UNCHANGED <<mysql_available, oss_available>>
    /\ UNCHANGED offExport

FetchEnter == FetchEnterWith(DbOutcomes)

\* `if not db_client: return []`
FetchNoClient ==
    /\ ex_pc = "fetching"
    /\ falsy(Innermost.client)
    /\ DbScopeExit("return")
    /\ ex_pc' = "fetched"
    /\ UNCHANGED <<ex_i, all_data, ex_queries, ex_k, found_asins, exported_files,
                   total_file_size, writes, export_result>>
    /\ UNCHANGED <<mysql_available, oss_available>>
    /\ UNCHANGED offExport

\* one page's try block: the rows appended, or the exception logged and the
\* page skipped
fetch_page(data, rows, batch, raised) ==
    IF raised THEN data ELSE data \o row_dicts(fetchall(select_rows(rows, batch)))

\* one iteration of `for i in range(0, len(check_items), batch_size)`
FetchPage ==
    /\ ex_pc = "fetching"
    /\ ~falsy(Innermost.client)
    /\ ex_i < Len(asin_list)
    /\ \E raised \in BOOLEAN :
          LET batch == PageOf(asin_list, ex_i)
          IN  /\ all_data' = fetch_page(all_data, db_rows, batch, raised)
              /\ ex_queries' = Append(ex_queries, [first |-> ex_i + 1,
                                                   last |-> ex_i + Len(batch),
                                                   raised |-> raised])
    /\ ex_i' = ex_i + batch_size
    /\ UNCHANGED <<ex_k, found_asins, exported_files, total_file_size, writes,
                   export_result, ex_pc>>
    /\ UNCHANGED connVars
    /\ UNCHANGED offExport

\* `return all_data`, leaving the scope
FetchReturn ==
    /\ ex_pc = "fetching"
    /\ ~falsy(Innermost.client)
    /\ ex_i >= Len(asin_list)
    /\ DbScopeExit("return")
    /\ ex_pc' = "fetched"
    /\ UNCHANGED <<ex_i, all_data, ex_queries, ex_k, found_asins, exported_files,
                   total_file_size, writes, export_result>>
    /\ UNCHANGED <<mysql_available, oss_available>>
    /\ UNCHANGED offExport

\* `if not asin_data: return {'success': False, ...}`
ExportNoData ==
    /\ ex_pc = "fetched"
    /\ all_data = <<>>
    /\ export_result' = <<[success |-> FALSE, message |-> "no data found"]>>
    /\ ex_pc' = "done"
    /\ UNCHANGED <<ex_i, all_data, ex_queries, ex_k, found_asins, exported_files,
                   total_file_size, writes>>
    /\ UNCHANGED connVars
    /\ UNCHANGED offExport

\* `if asin_item in asin_data_map`
in_data_map(asin_item, data) == asin_item \in asin_data_map(data)

\* one iteration of `for asin_item in asin_list`: the file written when the
\* identifier is a key of asin_data_map
ExportItem ==
    /\ ex_pc = "fetched"
    /\ all_data # <<>>
    /\ ex_k < Len(asin_list)
    /\ LET asin_item == asin_list[ex_k + 1]
           filename == filename_of(asin_item)
           file_size == getsize(asin_item)
       IN  IF in_data_map(asin_item, all_data)
           THEN /\ found_asins' = found_asins + 1
                /\ writes' = Append(writes, filename)
                /\ total_file_size' = total_file_size + file_size
                /\ exported_files' =
                      Append(exported_files,
                             [filename |-> filename, asin |-> asin_item, size |-> file_size])
           ELSE UNCHANGED <<found_asins, writes, total_file_size, exported_files>>
    /\ ex_k' = ex_k + 1
    /\ UNCHANGED <<ex_i, all_data, ex_queries, export_result, ex_pc>>
    /\ UNCHANGED connVars
    /\ UNCHANGED offExport

\* open() or json.dump raises: `except Exception`, the files written stay
ExportRaises ==
    /\ ex_pc = "fetched"
    /\ all_data # <<>>
    /\ ex_k < Len(asin_list)
    /\ in_data_map(asin_list[ex_k + 1], all_data)
    /\ export_result' = <<[success |-> FALSE, message |-> "exception"]>>
    /\ ex_pc' = "done"
    /\ UNCHANGED <<ex_i, all_data, ex_queries, ex_k, found_asins, exported_files,
                   total_file_size, writes>>
    /\ UNCHANGED connVars
    /\ UNCHANGED offExport

\* the loop is over: the result dict
ExportReturn ==
    /\ ex_pc = "fetched"
    /\ all_data # <<>>
    /\ ex_k = Len(asin_list)
    /\ export_result' =
          <<[success |-> TRUE,
             exported_files |-> exported_files,
             total_asins |-> Len(asin_list),
             found_asins |-> found_asins,
             total_file_size |-> total_file_size]>>
    /\ ex_pc' = "done"
    /\ UNCHANGED <<ex_i, all_data, ex_queries, ex_k, found_asins, exported_files,
                   total_file_size, writes>>
    /\ UNCHANGED connVars
    /\ UNCHANGED offExport

(***************************************************************************)
(* ResultVerifier.wait_for_completion                                      *)
(***************************************************************************)
\* a plausible slip: the 20 seconds counted once per identifier
max_wait_of_each(asin_count) == (30 + 20) * asin_count

\* max_wait = 30 * asin_count + 20
max_wait_of(asin_count) == 30 * asin_count + 20

\* a plausible slip: the comparison the wrong way round
loop_continues_inverted(elapsed, limit) == elapsed >= limit

\* `while time.time() - start_time < max_wait`
loop_continues(elapsed, limit) == elapsed < limit

\* a plausible slip: the database check alone decides
cycle_succeeded_database(result) == get_success(result.database)

\* `if result['success']`
cycle_succeeded(result) == result.success

\* the check_interval arguments tried: the default, one that does not divide
\* the deadlines, ones that do, and one longer than a deadline
CheckIntervals == {3, 7, 10, 25, 60}

\* time.sleep(n) returns after n seconds or a little later
SleepTimes(n) == {n, n + MaxOversleep}

WaitIds == { <<"U", "S", "@", "b">> }

WaitRows == { [asin |-> <<"b">>, site |-> US] }

WaitKeys == { main_file(<<"b">>, US) }

WaitIdle ==
    /\ check_interval = 3
    /\ max_wait = 0
    /\ start_time = 0
    /\ check_count = 0
    /\ exports = 0
    /\ wait_result = <<>>
    /\ wait_pc = "idle"

WaitInit ==
    /\ asin_list \in SeqsUpTo(WaitIds, MaxWaitAsins)
    /\ db_rows \in SUBSET WaitRows
    /\ verification_method = "existence"
    /\ db_i = 0
    /\ processed_asins = <<>>
    /\ pending_asins = <<>>
    /\ queries = <<>>
    /\ db_result = <<>>
    /\ db_pc = "start"
    /\ oss_objects \in SUBSET WaitKeys
    /\ oss_raises = {}
    /\ image_verification_mode = "main_only"
    /\ sub_image_count = 0
    /\ oss_k = 0
    /\ successful_asins = <<>>
    /\ failed_asins = <<>>
    /\ oss_result = <<>>
    /\ oss_pc = "start"
    /\ now = 5        \* the clock reads some time when the call is made
    /\ va_start = 0
    /\ va_result = <<>>
    /\ va_pc = "idle"
    /\ ExportIdle
    /\ check_interval \in CheckIntervals
    /\ max_wait = 0
    /\ start_time = 0
    /\ check_count = 0
    /\ exports = 0
    /\ wait_result = <<>>
    /\ wait_pc = "idle"

\* the table and the bucket other than the crawler leaves them
Environment == <<db_rows, verification_method, oss_objects, oss_raises,
                 image_verification_mode, sub_image_count>>

\* wait_for_completion is called: max_wait and start_time are set
WaitCall ==
    /\ wait_pc = "idle"
    /\ max_wait' = max_wait_of(Len(asin_list))
    /\ start_time' = now
    /\ check_count' = 0
    /\ wait_pc' = "loop"
    /\ UNCHANGED <<check_interval, exports, wait_result>>
    /\ UNCHANGED <<ingestVars, pushVars, connVars, asin_list, dbVars, ossVars,
                   verifyAllVars, exportVars, cliVars>>

\* the loop condition holds: the next verify_all cycle starts
WaitCheck ==
    /\ wait_pc = "loop"
    /\ loop_continues(now - start_time, max_wait)
    /\ check_count' = check_count + 1
    /\ VerifyAllBegin
    /\ wait_pc' = "checking"
    /\ UNCHANGED <<check_interval, max_wait, start_time, exports, wait_result>>
    /\ UNCHANGED <<now, asin_list>>
    /\ UNCHANGED Environment
    /\ UNCHANGED <<ingestVars, pushVars, connVars, exportVars, cliVars>>

\* the timeout result of lines 461-469
timeout_result ==
    [success |-> FALSE, completed |-> FALSE, duration |-> now - start_time,
     checks |-> check_count, message |-> "timeout"]

\* the loop condition fails: the timeout result
WaitTimeout ==
    /\ wait_pc = "loop"
    /\ ~loop_continues(now - start_time, max_wait)
    /\ wait_result' = <<timeout_result>>
    /\ wait_pc' = "done"
    /\ UNCHANGED <<check_interval, max_wait, start_time, check_count, exports>>
    /\ UNCHANGED <<ingestVars, pushVars, connVars, asin_list, dbVars, ossVars,
                   verifyAllVars, exportVars, cliVars>>

\* how the database connection of a poll cycle goes: made, or failing at its
\* last step (where a connection fails makes no difference to the caller)
WaitDbOutcomes == {"ok", "query_fails"}

\* the object-store client of a poll cycle: there is none in every cycle
\* when the oss2 import failed (oss_available), and it is made otherwise
WaitOssOutcomes == {"ok"}

\* result = self.verify_all(asin_list, ...)
WaitVerifyAll ==
    /\ wait_pc = "checking"
    /\ \/ VerifyAllDatabaseWith(WaitDbOutcomes)
       \/ VerifyAllOssWith(WaitOssOutcomes)
       \/ VerifyAllReturn
       \/ VerifyAllRaises

\* the exception of verify_all passes through wait_for_completion
WaitRaises ==
    /\ wait_pc = "checking"
    /\ va_pc = "done"
    /\ "raised" \in DOMAIN va_result[1]
    /\ wait_result' = <<[raised |-> TRUE]>>
    /\ wait_pc' = "done"
    /\ UNCHANGED <<check_interval, max_wait, start_time, check_count, exports>>
    /\ UNCHANGED <<ingestVars, pushVars, connVars, asin_list, dbVars, ossVars,
                   verifyAllVars, exportVars, cliVars>>

\* the cycle succeeded: export_asin_data is called
WaitSucceeded ==
    /\ wait_pc = "checking"
    /\ va_pc = "done"
    /\ "success" \in DOMAIN va_result[1]
    /\ cycle_succeeded(va_result[1])
    /\ exports' = exports + 1
    /\ ExportBegin
    /\ wait_pc' = "exporting"
    /\ UNCHANGED <<check_interval, max_wait, start_time, check_count, wait_result>>
    /\ UNCHANGED <<ingestVars, pushVars, connVars, asin_list, dbVars, ossVars,
                   verifyAllVars, cliVars>>

\* export_result = self.export_asin_data(asin_list)
WaitExport ==
    /\ wait_pc = "exporting"
    /\ \/ FetchEnterWith(WaitDbOutcomes)
       \/ FetchNoClient
       \/ FetchPage
       \/ FetchReturn
       \/ ExportNoData
       \/ ExportItem
       \/ ExportRaises
       \/ ExportReturn

\* the export has returned: completed
WaitReturn ==
    /\ wait_pc = "exporting"
    /\ ex_pc = "done"
    /\ wait_result' =
          <<[success |-> TRUE, completed |-> TRUE, duration |-> now - start_time,
             checks |-> check_count, result |-> va_result[1],
             export |-> export_result[1]]>>
    /\ wait_pc' = "done"
    /\ UNCHANGED <<check_interval, max_wait, start_time, check_count, exports>>
    /\ UNCHANGED <<ingestVars, pushVars, connVars, asin_list, dbVars, ossVars,
                   verifyAllVars, exportVars, cliVars>>

\* the cycle failed and more than check_interval remains: sleep; the crawler
\* may add the row and the image in the meantime
WaitSleep ==
    /\ wait_pc = "checking"
    /\ va_pc = "done"
    /\ "success" \in DOMAIN va_result[1]
    /\ ~cycle_succeeded(va_result[1])
    /\ max_wait - (now - start_time) > check_interval
    /\ \E t \in SleepTimes(check_interval) : now' = now + t
    /\ \E rows \in SUBSET WaitRows, objects \in SUBSET WaitKeys :
          /\ db_rows \subseteq rows
          /\ oss_objects \subseteq objects
          /\ db_rows' = rows
          /\ oss_objects' = objects
    /\ wait_pc' = "loop"
    /\ UNCHANGED <<check_interval, max_wait, start_time, check_count, exports,
                   wait_result>>
    /\ UNCHANGED <<va_start, va_result, va_pc>>
    /\ UNCHANGED <<verification_method, db_i, processed_asins, pending_asins, queries,
                   db_result, db_pc>>
    /\ UNCHANGED <<oss_raises, image_verification_mode, sub_image_count, oss_k,
                   successful_asins, failed_asins, oss_result, oss_pc>>
    /\ UNCHANGED <<ingestVars, pushVars, connVars, asin_list, exportVars, cliVars>>

\* the cycle failed and no more than check_interval remains: `break`
WaitBreak ==
    /\ wait_pc = "checking"
    /\ va_pc = "done"
    /\ "success" \in DOMAIN va_result[1]
    /\ ~cycle_succeeded(va_result[1])
    /\ ~(max_wait - (now - start_time) > check_interval)
    /\ wait_result' = <<timeout_result>>
    /\ wait_pc' = "done"
    /\ UNCHANGED <<check_interval, max_wait, start_time, check_count, exports>>
    /\ UNCHANGED <<ingestVars, pushVars, connVars, asin_list, dbVars, ossVars,
                   verifyAllVars, exportVars, cliVars>>

(***************************************************************************)
(* asin_to_redis_optimized.py: main, cmd_push, cmd_verify, cmd_export,     *)
(* cmd_test, and ASINPusher.run                                            *)
(***************************************************************************)
Commands == {"push", "verify", "export", "test"}

\* str.lower(), per character
LowerChar(c) ==
    CASE c = "Y" -> "y"
      [] c = "E" -> "e"
      [] c = "S" -> "s"
      [] c = "N" -> "n"
      [] OTHER -> c

Lower(s) == [i \in 1..Len(s) |-> LowerChar(s[i])]

\* what the user may type at the prompt ("U+662F" is the one character of
\* the Chinese "yes")
Answers ==
    { <<"y">>, <<" ", "Y">>, <<"Y", "E", "S">>, <<"U+662F">>, <<"n">>, <<>>, <<"y", "e">> }

\* input(...).strip().lower() in ['y', 'yes', U+662F]
confirmed(typed) ==
    Lower(Strip(typed)) \in { <<"y">>, <<"y", "e", "s">>, <<"U+662F">> }

\* the input files of the handlers: empty, a comment, one identifier, the
\* same identifier twice
CliFiles == { <<>>, << <<"#", "b">> >>, << <<"b">> >>, << <<"b">>, <<"b">> >> }

\* the --check-interval arguments tried
CliIntervals == {25, 60}

CliIdle ==
    /\ command = "test"
    /\ yes = FALSE
    /\ wait_flag = FALSE
    /\ answer = <<>>
    /\ run_result = <<>>
    /\ caught = FALSE
    /\ uncaught = FALSE
    /\ exit_code = <<>>
    /\ cli_pc = "start"

\* the command line, the file, the queue, the table and the bucket
CliInit ==
    /\ command \in Commands
    /\ yes \in BOOLEAN
    /\ wait_flag \in BOOLEAN
    /\ command # "push" => (~yes /\ ~wait_flag)
    /\ answer = <<>>
    /\ run_result = <<>>
    /\ caught = FALSE
    /\ uncaught = FALSE
    /\ exit_code = <<>>
    /\ cli_pc = "start"
    /\ file_exists \in BOOLEAN
    /\ file \in (IF file_exists /\ command # "test" THEN CliFiles ELSE {<<>>})
    /\ line_num = 0
    /\ line = <<>>
    /\ parsed = NoParse
    /\ asin_data = <<>>
    /\ read_pc = "reading"
    /\ redis_set \in SUBSET WaitIds
    /\ formatted_data = <<>>
    /\ push_result = <<>>
    /\ pushes = 0
    /\ yielded = <<>>
    /\ redis_commands = 0
    /\ asin_list = <<>>
    /\ db_rows \in SUBSET WaitRows
    /\ verification_method = "existence"
    /\ db_i = 0
    /\ processed_asins = <<>>
    /\ pending_asins = <<>>
    /\ queries = <<>>
    /\ db_result = <<>>
    /\ db_pc = "start"
    /\ oss_objects \in SUBSET WaitKeys
    /\ oss_raises = {}
    /\ image_verification_mode = "main_only"
    /\ sub_image_count = 0
    /\ oss_k = 0
    /\ successful_asins = <<>>
    /\ failed_asins = <<>>
    /\ oss_result = <<>>
    /\ oss_pc = "start"
    /\ VerifyAllIdle
    /\ ExportIdle
    /\ check_interval \in CliIntervals
    /\ max_wait = 0
    /\ start_time = 0
    /\ check_count = 0
    /\ exports = 0
    /\ wait_result = <<>>
    /\ wait_pc = "idle"

\* main: sys.exit(0 if success else 1)
exit_status(success) == IF success THEN 0 ELSE 1

\* the handler returns `success` and main exits
Exit(success) ==
    /\ exit_code' = <<exit_status(success)>>
    /\ cli_pc' = "exited"

\* `if not os.path.exists(args.file): return False`, in cmd_push, cmd_verify
\* and cmd_export
CmdMissingFile ==
    /\ cli_pc = "start"
    /\ command \in {"push", "verify", "export"}
    /\ ~file_exists
    /\ Exit(FALSE)
    /\ UNCHANGED <<command, yes, wait_flag, answer, run_result, caught, uncaught>>
    /\ UNCHANGED <<ingestVars, pushVars, connVars, asin_list, dbVars, ossVars,
                   verifyAllVars, exportVars, waitVars>>

\* a plausible slip: the answer read and not tested
CmdPushDeclinedRuns ==
    /\ cli_pc = "start"
    /\ command = "push"
    /\ file_exists
    /\ ~yes
    /\ \E typed \in Answers : ~confirmed(typed) /\ answer' = <<typed>>
    /\ cli_pc' = "run"
    /\ UNCHANGED <<command, yes, wait_flag, run_result, caught, uncaught, exit_code>>
    /\ UNCHANGED <<ingestVars, pushVars, connVars, asin_list, dbVars, ossVars,
                   verifyAllVars, exportVars, waitVars>>

\* cmd_push: the user does not confirm
CmdPushDeclined ==
    /\ cli_pc = "start"
    /\ command = "push"
    /\ file_exists
    /\ ~yes
    /\ \E typed \in Answers : ~confirmed(typed) /\ answer' = <<typed>>
    /\ Exit(FALSE)
    /\ UNCHANGED <<command, yes, wait_flag, run_result, caught, uncaught>>
    /\ UNCHANGED <<ingestVars, pushVars, connVars, asin_list, dbVars, ossVars,
                   verifyAllVars, exportVars, waitVars>>

\* cmd_push: input() raises EOFError (standard input is closed); the prompt
\* is outside the try block, so the interpreter ends with a traceback and
\* status 1
CmdPushInputRaises ==
    /\ cli_pc = "start"
    /\ command = "push"
    /\ file_exists
    /\ ~yes
    /\ uncaught' = TRUE
    /\ exit_code' = <<1>>
    /\ cli_pc' = "exited"
    /\ UNCHANGED <<command, yes, wait_flag, answer, run_result, caught>>
    /\ UNCHANGED <<ingestVars, pushVars, connVars, asin_list, dbVars, ossVars,
                   verifyAllVars, exportVars, waitVars>>

\* cmd_push: confirmed by -y or by the answer; pusher.run(args.file) is called
CmdPushConfirmed ==
    /\ cli_pc = "start"
    /\ command = "push"
    /\ file_exists
    /\ IF yes
       THEN UNCHANGED answer
       ELSE \E typed \in Answers : confirmed(typed) /\ answer' = <<typed>>
    /\ cli_pc' = "run"
    /\ UNCHANGED <<command, yes, wait_flag, run_result, caught, uncaught, exit_code>>
    /\ UNCHANGED <<ingestVars, pushVars, connVars, asin_list, dbVars, ossVars,
                   verifyAllVars, exportVars, waitVars>>

\* cmd_verify, cmd_export: the file exists; read_asin_file is called
CmdReadFile ==
    /\ cli_pc = "start"
    /\ command \in {"verify", "export"}
    /\ file_exists
    /\ cli_pc' = "read"
    /\ UNCHANGED <<command, yes, wait_flag, answer, run_result, caught, uncaught, exit_code>>
    /\ UNCHANGED <<ingestVars, pushVars, connVars, asin_list, dbVars, ossVars,
                   verifyAllVars, exportVars, waitVars>>

\* another process removes the file after the handler's test and before
\* read_asin_file's
FileRemoved ==
    /\ cli_pc \in {"run", "read"}
    /\ read_pc = "reading"
    /\ line_num = 0
    /\ file_exists
    /\ file_exists' = FALSE
    /\ UNCHANGED <<file, line_num, line, parsed, asin_data, read_pc>>
    /\ UNCHANGED <<pushVars, connVars, asin_list, dbVars, ossVars, verifyAllVars,
                   exportVars, waitVars, cliVars>>

\* read_asin_file, called by run or by a handler
CliRead ==
    /\ cli_pc \in {"run", "read"}
    /\ \/ ReadMissing
       \/ ReadSkip
       \/ ReadParse
       \/ ReadReturn

\* run: read_asin_file raised; `except Exception` returns the failure dict,
\* and cmd_push returns False
RunReadRaised ==
    /\ cli_pc = "run"
    /\ read_pc = "raised"
    /\ run_result' = <<[success |-> FALSE, message |-> "push failed"]>>
    /\ caught' = TRUE
    /\ Exit(FALSE)
    /\ UNCHANGED <<command, yes, wait_flag, answer, uncaught>>
    /\ UNCHANGED <<ingestVars, pushVars, connVars, asin_list, dbVars, ossVars,
                   verifyAllVars, exportVars, waitVars>>

\* run: `if not asin_data: return {'success': False, ...}`
RunNoData ==
    /\ cli_pc = "run"
    /\ read_pc = "done"
    /\ asin_data = <<>>
    /\ run_result' = <<[success |-> FALSE, message |-> "no valid data"]>>
    /\ Exit(FALSE)
    /\ UNCHANGED <<command, yes, wait_flag, answer, caught, uncaught>>
    /\ UNCHANGED <<ingestVars, pushVars, connVars, asin_list, dbVars, ossVars,
                   verifyAllVars, exportVars, waitVars>>

\* run: result = self.push_to_redis(self.format_asin_data(asin_data))
RunPush ==
    /\ cli_pc = "run"
    /\ read_pc = "done"
    /\ asin_data # <<>>
    /\ push_result = <<>>
    /\ \/ PushNoClientOf(format_asin_data(asin_data))
       \/ PushToRedisOf(format_asin_data(asin_data))

\* run returned push_to_redis's failure: cmd_push returns False
CmdPushFailed ==
    /\ cli_pc = "run"
    /\ push_result # <<>>
    /\ ~push_result[1].success
    /\ run_result' = push_result
    /\ Exit(FALSE)
    /\ UNCHANGED <<command, yes, wait_flag, answer, caught, uncaught>>
    /\ UNCHANGED <<ingestVars, pushVars, connVars, asin_list, dbVars, ossVars,
                   verifyAllVars, exportVars, waitVars>>

\* the push succeeded and --wait was not given: cmd_push returns True
CmdPushDone ==
    /\ cli_pc = "run"
    /\ push_result # <<>>
    /\ push_result[1].success
    /\ ~wait_flag
    /\ run_result' = push_result
    /\ Exit(TRUE)
    /\ UNCHANGED <<command, yes, wait_flag, answer, caught, uncaught>>
    /\ UNCHANGED <<ingestVars, pushVars, connVars, asin_list, dbVars, ossVars,
                   verifyAllVars, exportVars, waitVars>>

\* the push succeeded and --wait was given: the file is read again (to the
\* same list) and wait_for_completion is called
CmdPushWait ==
    /\ cli_pc = "run"
    /\ push_result # <<>>
    /\ push_result[1].success
    /\ wait_flag
    /\ run_result' = push_result
    /\ asin_list' = format_asin_data(asin_data)
    /\ cli_pc' = "wait"
    /\ UNCHANGED <<command, yes, wait_flag, answer, caught, uncaught, exit_code>>
    /\ UNCHANGED <<ingestVars, pushVars, connVars, dbVars, ossVars, verifyAllVars,
                   exportVars, waitVars>>

\* wait_result = verifier.wait_for_completion(asin_list, check_interval)
CliWait ==
    /\ cli_pc = "wait"
    /\ \/ WaitCall
       \/ WaitCheck
       \/ WaitTimeout
       \/ WaitVerifyAll
       \/ WaitRaises
       \/ WaitSucceeded
       \/ WaitExport
       \/ WaitReturn
       \/ WaitSleep
       \/ WaitBreak

\* cmd_push: `if wait_result['completed']: return True  else: return False`;
\* an exception of wait_for_completion is caught and False returned
CmdPushWaited ==
    /\ cli_pc = "wait"
    /\ wait_pc = "done"
    /\ IF "raised" \in DOMAIN wait_result[1]
       THEN caught' = TRUE /\ Exit(FALSE)
       ELSE UNCHANGED caught /\ Exit(wait_result[1].completed)
    /\ UNCHANGED <<command, yes, wait_flag, answer, run_result, uncaught>>
    /\ UNCHANGED <<ingestVars, pushVars, connVars, asin_list, dbVars, ossVars,
                   verifyAllVars, exportVars, waitVars>>

\* cmd_verify, cmd_export: read_asin_file raised; `except Exception` returns
\* False
CmdReadRaised ==
    /\ cli_pc = "read"
    /\ read_pc = "raised"
    /\ caught' = TRUE
    /\ Exit(FALSE)
    /\ UNCHANGED <<command, yes, wait_flag, answer, run_result, uncaught>>
    /\ UNCHANGED <<ingestVars, pushVars, connVars, asin_list, dbVars, ossVars,
                   verifyAllVars, exportVars, waitVars>>

\* cmd_verify: verifier.verify_all(asin_list, ...) is called
CmdVerifyCall ==
    /\ cli_pc = "read"
    /\ command = "verify"
    /\ read_pc = "done"
    /\ asin_list' = format_asin_data(asin_data)
    /\ VerifyAllBegin
    /\ cli_pc' = "verify"
    /\ UNCHANGED <<command, yes, wait_flag, answer, run_result, caught, uncaught, exit_code>>
    /\ UNCHANGED now
    /\ UNCHANGED Environment
    /\ UNCHANGED <<ingestVars, pushVars, connVars, exportVars, waitVars>>

CliVerifyAll ==
    /\ cli_pc = "verify"
    /\ \/ VerifyAllDatabase
       \/ VerifyAllOss
       \/ VerifyAllReturn
       \/ VerifyAllRaises

\* cmd_verify: `return True` iff result['success']; an exception of
\* verify_all is caught and False returned
CmdVerifyDone ==
    /\ cli_pc = "verify"
    /\ va_pc = "done"
    /\ IF "raised" \in DOMAIN va_result[1]
       THEN caught' = TRUE /\ Exit(FALSE)
       ELSE UNCHANGED caught /\ Exit(va_result[1].success)
    /\ UNCHANGED <<command, yes, wait_flag, answer, run_result, uncaught>>
    /\ UNCHANGED <<ingestVars, pushVars, connVars, asin_list, dbVars, ossVars,
                   verifyAllVars, exportVars, waitVars>>

\* cmd_export: verifier.export_asin_data(asin_list) is called
CmdExportCall ==
    /\ cli_pc = "read"
    /\ command = "export"
    /\ read_pc = "done"
    /\ asin_list' = format_asin_data(asin_data)
    /\ ExportBegin
    /\ cli_pc' = "export"
    /\ UNCHANGED <<command, yes, wait_flag, answer, run_result, caught, uncaught, exit_code>>
    /\ UNCHANGED <<ingestVars, pushVars, connVars, dbVars, ossVars, verifyAllVars,
                   waitVars>>

CliExport ==
    /\ cli_pc = "export"
    /\ \/ FetchEnter
       \/ FetchNoClient
       \/ FetchPage
       \/ FetchReturn
       \/ ExportNoData
       \/ ExportItem
       \/ ExportRaises
       \/ ExportReturn

\* cmd_export: `return True` iff export_result['success']
CmdExportDone ==
    /\ cli_pc = "export"
    /\ ex_pc = "done"
    /\ Exit(export_result[1].success)
    /\ UNCHANGED <<command, yes, wait_flag, answer, run_result, caught, uncaught>>
    /\ UNCHANGED <<ingestVars, pushVars, connVars, asin_list, dbVars, ossVars,
                   verifyAllVars, exportVars, waitVars>>

\* cmd_test: pusher.test_connection()
CmdTest ==
    /\ cli_pc = "start"
    /\ command = "test"
    /\ TestConnection
    /\ Exit(~falsy(yielded'[1]))
    /\ UNCHANGED <<command, yes, wait_flag, answer, run_result, caught, uncaught>>
    /\ UNCHANGED <<ingestVars, asin_list, dbVars, ossVars, verifyAllVars, exportVars,
                   waitVars>>

\* the components that call the ones above, as constructed
LaterIdle == VerifyAllIdle /\ ExportIdle /\ WaitIdle /\ CliIdle

(***************************************************************************)
(* Specifications                                                          *)
(***************************************************************************)
InitIngest ==
    IngestInit /\ PushIdle /\ ConnIdle /\ asin_list = <<>> /\ DbIdle /\ OssIdle /\ LaterIdle

NextIngest == ReadMissing \/ ReadSkip \/ ReadParse \/ ReadReturn

SpecIngest == InitIngest /\ [][NextIngest]_vars

InitPush ==
    PushInit /\ IngestIdle /\ ConnIdle /\ asin_list = <<>> /\ DbIdle /\ OssIdle /\ LaterIdle

NextPush == PushEmpty \/ PushNoClient \/ PushToRedis

SpecPush == InitPush /\ [][NextPush]_vars

InitConn ==
    ConnInit /\ IngestIdle /\ PushIdle /\ asin_list = <<>> /\ DbIdle /\ OssIdle /\ LaterIdle

NextConn ==
    RedisEnter \/ RedisExit \/ DatabaseEnter \/ DatabaseExit \/ OssEnter \/ OssExit

SpecConn == InitConn /\ [][NextConn]_vars

InitVerifyDb ==
    /\ DbInit
    /\ ConnNew /\ mysql_available \in BOOLEAN /\ oss_available = TRUE
    /\ IngestIdle /\ PushIdle /\ OssIdle /\ LaterIdle

NextVerifyDb ==
    VerifyDbEnter \/ VerifyDbNoClient \/ VerifyDbPage \/ VerifyDbQueryRaises
        \/ VerifyDbReturn

SpecVerifyDb == InitVerifyDb /\ [][NextVerifyDb]_vars

InitVerifyOss ==
    /\ OssInit
    /\ ConnNew /\ mysql_available = TRUE /\ oss_available \in BOOLEAN
    /\ IngestIdle /\ PushIdle /\ DbIdle /\ LaterIdle

NextVerifyOss == VerifyOssEnter \/ VerifyOssNoClient \/ VerifyOssCheck \/ VerifyOssReturn

SpecVerifyOss == InitVerifyOss /\ [][NextVerifyOss]_vars

InitVerifyAll ==
    /\ VerifyAllInit
    /\ ConnNew /\ mysql_available \in BOOLEAN /\ oss_available \in BOOLEAN
    /\ IngestIdle /\ PushIdle /\ ExportIdle /\ WaitIdle /\ CliIdle

NextVerifyAll ==
    VerifyAllCall \/ VerifyAllDatabase \/ VerifyAllOss \/ VerifyAllReturn \/ VerifyAllRaises

SpecVerifyAll == InitVerifyAll /\ [][NextVerifyAll]_vars

InitExport ==
    /\ ExportInit
    /\ ConnNew /\ mysql_available \in BOOLEAN /\ oss_available = TRUE
    /\ IngestIdle /\ PushIdle /\ OssIdle /\ VerifyAllIdle /\ WaitIdle /\ CliIdle

NextExport ==
    ExportCall \/ FetchEnter \/ FetchNoClient \/ FetchPage \/ FetchReturn
        \/ ExportNoData \/ ExportItem \/ ExportRaises \/ ExportReturn

SpecExport == InitExport /\ [][NextExport]_vars

InitWait ==
    /\ WaitInit
    /\ ConnNew /\ mysql_available = TRUE /\ oss_available \in BOOLEAN
    /\ IngestIdle /\ PushIdle /\ CliIdle

NextWait ==
    WaitCall \/ WaitCheck \/ WaitTimeout \/ WaitVerifyAll \/ WaitRaises \/ WaitSucceeded
        \/ WaitExport \/ WaitReturn \/ WaitSleep \/ WaitBreak

SpecWait == InitWait /\ [][NextWait]_vars

\* the interpreter keeps running the call
SpecWaitLive == SpecWait /\ WF_vars(NextWait)

InitCli == CliInit /\ ConnNew /\ mysql_available = TRUE /\ oss_available = TRUE

NextCli ==
    CmdMissingFile \/ CmdPushDeclined \/ CmdPushInputRaises \/ CmdPushConfirmed
        \/ CmdReadFile \/ FileRemoved \/ CliRead \/ RunReadRaised \/ RunNoData
        \/ RunPush \/ CmdPushFailed \/ CmdPushDone \/ CmdPushWait \/ CliWait
        \/ CmdPushWaited \/ CmdReadRaised \/ CmdVerifyCall \/ CliVerifyAll
        \/ CmdVerifyDone \/ CmdExportCall \/ CliExport \/ CmdExportDone \/ CmdTest

SpecCli == InitCli /\ [][NextCli]_vars

(***************************************************************************)
(* Claims about the queue push                                             *)
(***************************************************************************)
Pushed == pushes' = pushes + 1 /\ push_result'[1].success

\* C4: a successful push of batch B into set S returns pushed_count = the
\* length of B, added_count = the number of distinct members of B not in S
\* before, duplicate_count = pushed_count - added_count; afterwards every
\* member of B is in S and no earlier member is gone.  Pushing a batch whose
\* members are all in S already (as after a successful push of the same
\* batch) returns added_count = 0 and leaves S unchanged.
C4_PushCounts ==
    [][Pushed =>
        LET r == push_result'[1]
            B == formatted_data'
            new == Range(B) \ redis_set
        IN  /\ r.pushed_count = Len(B)
            /\ r.added_count = Cardinality(new)
            /\ r.duplicate_count = r.pushed_count - r.added_count
            /\ r.total_count = Cardinality(redis_set')
            /\ Range(B) \subseteq redis_set'
            /\ redis_set \subseteq redis_set'
            /\ redis_set' = redis_set \cup Range(B)
            /\ (push_result # <<>> /\ push_result[1].success /\ formatted_data = B) =>
                  r.added_count = 0 /\ redis_set' = redis_set
    ]_vars

\* C4 witness: a batch with a repetition pushed twice, the second time adding nothing
C4_Witness ==
    /\ pushes = 2
    /\ Len(formatted_data) = 3
    /\ Cardinality(Range(formatted_data)) = 2
    /\ push_result[1].success
    /\ push_result[1].added_count = 0
    /\ push_result[1].duplicate_count = 3
    /\ push_result[1].total_count = 2

(***************************************************************************)
(* Claims about the ingest formatter                                       *)
(***************************************************************************)
\* c occurs in l at i and nowhere before i
FirstAt(l, c, i) == l[i] = c /\ \A j \in 1..(i - 1) : l[j] # c

TextBefore(l, i) == SubSeq(l, 1, i - 1)

TextAfter(l, i) == SubSeq(l, i + 1, Len(l))

HasSeparator(l) == \E c \in {",", "\t", " "} : Contains(l, c)

\* the separator the claim has tried first: ',', then a tab, then a space
ClaimedSeparator(l) ==
    IF Contains(l, ",") THEN "," ELSE IF Contains(l, "\t") THEN "\t" ELSE " "

\* C1: a trimmed, non-empty, non-comment line with '@' parses to the
\* upper-cased trimmed text before the first '@' as site and the trimmed text
\* after it as code; without '@' but with ',', a tab or a space (tried in that
\* order) to the trimmed text before the first such separator as code and the
\* upper-cased trimmed text after it as site; otherwise to the whole line as
\* code and site US.  The site always equals its own upper-cased form.
C1_ParseShapes ==
    parsed # NoParse =>
        LET p == parsed[1] IN
        /\ Contains(line, "@") =>
              \E i \in 1..Len(line) :
                  /\ FirstAt(line, "@", i)
                  /\ p.site = Upper(Strip(TextBefore(line, i)))
                  /\ p.asin = Strip(TextAfter(line, i))
        /\ (~Contains(line, "@") /\ HasSeparator(line)) =>
              \E i \in 1..Len(line) :
                  /\ FirstAt(line, ClaimedSeparator(line), i)
                  /\ p.asin = Strip(TextBefore(line, i))
                  /\ p.site = Upper(Strip(TextAfter(line, i)))
        /\ (~Contains(line, "@") /\ ~HasSeparator(line)) =>
              p.asin = line /\ p.site = US
        /\ p.site = Upper(p.site)

\* C1 witness: a line holding a space before a comma, lower-case site, parsed
C1_Witness ==
    /\ line = <<"b", " ", ",", "b">>
    /\ parsed = <<[asin |-> <<"b">>, site |-> <<"B">>]>>

\* no site text on the line: no separator, or nothing but blanks after it
NoSiteText(l) ==
    \/ ~HasSeparator(l)
    \/ \E i \in 1..Len(l) :
          FirstAt(l, ClaimedSeparator(l), i) /\ Strip(TextAfter(l, i)) = <<>>

\* C2: a line without '@' whose site text is absent (no separator, or a
\* separator with nothing after it) parses to site US; the site of a line
\* without '@' is never empty.
C2_SiteDefaultsToUS ==
    (parsed # NoParse /\ ~Contains(line, "@")) =>
        /\ parsed[1].site # <<>>
        /\ NoSiteText(line) => parsed[1].site = US

IsDataLine(l) == ~(Strip(l) = <<>> \/ StartsWith(Strip(l), "#"))

HasCode(l) == parse_asin_line(Strip(l)).asin # <<>>

IsKeptLine(l) == IsDataLine(l) /\ HasCode(l)

\* the identifiers of the lines read so far that are data lines with a code
KeptOf(lines) ==
    LET kept == SelectSeq(lines, IsKeptLine)
    IN  [i \in 1..Len(kept) |-> parse_asin_line(Strip(kept[i]))]

\* C3 (as claimed): the result holds one identifier for every line that is
\* neither blank nor a comment, so its length is the number of such lines.
C3_OnePerDataLine ==
    read_pc = "done" => Len(asin_data) = Len(SelectSeq(file, IsDataLine))

\* C3 (amended): the result holds, in file order and with repetitions, the
\* identifier of every line that is neither blank nor a comment and whose
\* parsed code is not empty, and nothing else; the test's file gives exactly
\* 3 identifiers, the first formatting to US@B0CXCPTW7G.
C3_OnePerCodedLine ==
    /\ asin_data = KeptOf(SubSeq(file, 1, line_num))
    /\ (read_pc = "done" /\ file = TestFile) =>
          /\ Len(asin_data) = 3
          /\ format_asin_data(asin_data)[1] =
                <<"U","S","@","B","0","C","X","C","P","T","W","7","G">>

\* C3 witness: a repeated line, a comment and a line without a code, read
C3_Witness ==
    /\ read_pc = "done"
    /\ file = << <<"b", ",", "u", "s">>, <<"#", "b">>, <<"b", ",", "u", "s">> >>
    /\ asin_data = << [asin |-> <<"b">>, site |-> US], [asin |-> <<"b">>, site |-> US] >>

(***************************************************************************)
(* Claims about the connection broker                                      *)
(***************************************************************************)
TunnelsAt(port) == {t \in open_tunnels : t.port = port}

ClientsOf(res) == {c \in live_clients : c.res = res}

RedisTornDown ==
    /\ cm.redis_client = None
    /\ cm.ssh_tunnel = None
    /\ TunnelsAt(local_ports.redis) = {}
    /\ ClientsOf("redis") = {}

DatabaseTornDown ==
    /\ cm.db_client = None
    /\ cm.db_ssh_tunnel = None
    /\ TunnelsAt(local_ports.db) = {}
    /\ ClientsOf("db") = {}

ExitedOrFailed(res) ==
    /\ last_op.op # "init"
    /\ last_op.res = res
    /\ last_op.op = "exit" \/ last_op.result = "failed"

\* C5: when a queue or database scope has been left (the body returned, the
\* body raised, or the connect had failed), the client and its tunnel are
\* closed and both handles are None; a failed connect leaves nothing open
\* either.
C5_ScopeExitTearsDown ==
    /\ ExitedOrFailed("redis") => RedisTornDown
    /\ ExitedOrFailed("db") => DatabaseTornDown

\* C5 witness: a queue scope whose connect succeeded, left by an exception
C5_Witness ==
    /\ last_op = [op |-> "exit", res |-> "redis", result |-> "raise"]
    /\ scopes = <<>>
    /\ next_id = 3
    /\ RedisTornDown

\* C6: an acquisition whose connection or liveness check failed yields a
\* falsy (None) client, for the queue, the database and the object store.
C6_FailureYieldsNone ==
    (last_op.op = "enter" /\ last_op.result = "failed") => Innermost.client = None

SameClientNothingNew(res, handle, handle2) ==
    (/\ Len(scopes') = Len(scopes) + 1
     /\ scopes'[Len(scopes')].res = res
     /\ handle # None)
    => /\ scopes'[Len(scopes')].client = handle
       /\ handle2 = handle
       /\ open_tunnels' = open_tunnels
       /\ live_clients' = live_clients
       /\ next_id' = next_id

\* C7: at every moment at most one queue tunnel and at most one database
\* tunnel are open, on different local ports, and they are the ones the
\* broker's handles name; entering a scope while its client is live yields
\* that same client and opens no tunnel and creates no client.
C7_OneTunnelReused ==
    /\ [](/\ Cardinality(TunnelsAt(local_ports.redis)) <= 1
          /\ Cardinality(TunnelsAt(local_ports.db)) <= 1
          /\ local_ports.redis # local_ports.db
          /\ \A t \in open_tunnels :
                \/ t.port = local_ports.redis /\ t.id = cm.ssh_tunnel
                \/ t.port = local_ports.db /\ t.id = cm.db_ssh_tunnel
          /\ Cardinality(ClientsOf("redis")) <= 1
          /\ Cardinality(ClientsOf("db")) <= 1)
    /\ [][/\ SameClientNothingNew("redis", cm.redis_client, cm.redis_client')
          /\ SameClientNothingNew("db", cm.db_client, cm.db_client')
          /\ SameClientNothingNew("oss", cm.oss_client, cm.oss_client')]_vars

\* C7 witness: a database scope and two nested queue scopes sharing one client
C7_Witness ==
    /\ Len(scopes) = 3
    /\ scopes[1].res = "db" /\ scopes[1].client # None
    /\ scopes[2].res = "redis" /\ scopes[3].res = "redis"
    /\ scopes[2].client # None
    /\ scopes[3].client = scopes[2].client
    /\ Cardinality(open_tunnels) = 2
    /\ last_op.result = "reused"

(***************************************************************************)
(* Claims about the database check                                         *)
(***************************************************************************)
VerifiedByExistence ==
    /\ db_pc = "done"
    /\ "processed_count" \in DOMAIN db_result[1]
    /\ verification_method = "existence"

\* the status table holds a row with the identifier's code and site
HasRow(id) ==
    \E r \in db_rows : r.asin = check_item(id).asin /\ r.site = check_item(id).site

Count(seq, x) == Cardinality({k \in 1..Len(seq) : seq[k] = x})

\* every identifier is in processed_asins or in pending_asins, as often as
\* it is in the list, and never in both
Partitioned ==
    /\ \A id \in Range(asin_list) :
          /\ Count(processed_asins, id) + Count(pending_asins, id) = Count(asin_list, id)
          /\ Count(processed_asins, id) = 0 \/ Count(pending_asins, id) = 0
    /\ Range(processed_asins) \cup Range(pending_asins) \subseteq Range(asin_list)
    /\ db_result[1].processed_count + Len(db_result[1].pending_asins)
          = db_result[1].total_count
    /\ db_result[1].total_count = Len(asin_list)
    /\ db_result[1].success <=> (db_result[1].pending_asins = <<>>)

\* consecutive pages of at most batch_size identifiers, one query each, every
\* position of the list in exactly one page
Paged ==
    /\ \A q \in 1..Len(queries) :
          /\ queries[q].first = (q - 1) * batch_size + 1
          /\ queries[q].last - queries[q].first + 1 <= batch_size
          /\ queries[q].first <= queries[q].last
    /\ \A k \in 1..Len(asin_list) :
          Cardinality({q \in 1..Len(queries) :
                          queries[q].first <= k /\ k <= queries[q].last}) = 1

\* processed exactly when a row with the identifier's code and site exists
ClassifiedByRow ==
    \A id \in Range(asin_list) :
        /\ HasRow(id) => id \in Range(processed_asins)
        /\ ~HasRow(id) => id \in Range(pending_asins)

\* what holds of verify_database whatever the identifiers' form
VerifyDbPartitionedAndPaged == VerifiedByExistence => (Partitioned /\ Paged)

\* C8: with method `existence` and a database client, every identifier of the
\* list is in exactly one of processed_asins (a row with its code and site
\* was returned) and pending_asins (no such row); processed_count +
\* |pending_asins| = total_count; success iff pending_asins is empty; the
\* list is queried in consecutive pages of at most 100, each identifier in
\* exactly one page.
C8_ProcessedIffRow ==
    VerifiedByExistence => (Partitioned /\ Paged /\ ClassifiedByRow)

(***************************************************************************)
(* Claims about the object-store check                                     *)
(***************************************************************************)
PrimaryKey(id) == main_file(check_item(id).asin, check_item(id).site)

SecondaryKeys(id) ==
    {sub_file(check_item(id).asin, check_item(id).site, i) : i \in 0..(sub_image_count - 1)}

\* the keys the claim expects in a mode
ExpectedKeys(id) ==
    IF image_verification_mode = "main_only"
    THEN {PrimaryKey(id)}
    ELSE {PrimaryKey(id)} \cup SecondaryKeys(id)

\* the key exists as far as the check can tell: object_exists returned true
\* (a call that raises tells nothing and counts as absent)
Exists(key) == key \in oss_objects /\ key \notin oss_raises

\* the identifiers checked so far
Checked == Range(SubSeq(asin_list, 1, oss_k))

KnownMode == image_verification_mode \in {"main_only", "any_image", "all_images"}

\* C9: in the modes main_only and any_image an identifier is successful iff
\* at least one of its expected keys exists, in all_images iff every expected
\* key exists (the primary key alone in main_only, the primary and the
\* sub_image_count secondary keys otherwise); every identifier is in exactly
\* one of successful_asins and failed_asins; success iff none is failed.
C9_ModeClassification ==
    /\ KnownMode =>
          \A id \in Checked :
              (id \in Range(successful_asins)) <=>
                  IF image_verification_mode = "all_images"
                  THEN \A key \in ExpectedKeys(id) : Exists(key)
                  ELSE \E key \in ExpectedKeys(id) : Exists(key)
    /\ \A id \in Checked :
          /\ Count(successful_asins, id) + Count(failed_asins, id)
                = Count(SubSeq(asin_list, 1, oss_k), id)
          /\ Count(successful_asins, id) = 0 \/ Count(failed_asins, id) = 0
    /\ Range(successful_asins) \cup Range(failed_asins) \subseteq Checked
    /\ (oss_pc = "done" /\ "total_count" \in DOMAIN oss_result[1]) =>
          /\ oss_k = Len(asin_list)
          /\ oss_result[1].successful_asins = successful_asins
          /\ oss_result[1].failed_asins = failed_asins
          /\ oss_result[1].success <=> (failed_asins = <<>>)

\* C9 witness: any_image, the primary key missing and a secondary key there
\* for one identifier, nothing there for the other
C9_Witness ==
    /\ oss_pc = "done"
    /\ image_verification_mode = "any_image"
    /\ sub_image_count = 1
    /\ asin_list = << <<"U", "S", "@", "b">>, <<"c">> >>
    /\ oss_objects = {sub_file(<<"b">>, US, 0), main_file(<<"c">>, US)}
    /\ oss_raises = {main_file(<<"c">>, US)}
    /\ successful_asins = << <<"U", "S", "@", "b">> >>
    /\ failed_asins = << <<"c">> >>
    /\ ~oss_result[1].success

\* C10: in main_only an identifier whose primary key is absent is failed
\* whatever secondary keys exist; in all_images an identifier whose secondary
\* keys all exist but whose primary key is absent is failed.
C10_AbsentPrimaryFails ==
    \A id \in Checked :
        /\ (image_verification_mode = "main_only" /\ PrimaryKey(id) \notin oss_objects)
              => (id \in Range(failed_asins) /\ id \notin Range(successful_asins))
        /\ (/\ image_verification_mode = "all_images"
            /\ SecondaryKeys(id) \subseteq oss_objects
            /\ PrimaryKey(id) \notin oss_objects)
              => (id \in Range(failed_asins) /\ id \notin Range(successful_asins))

\* C10 witness: all_images, the one secondary key there, the primary absent
C10_Witness ==
    /\ oss_pc = "done"
    /\ image_verification_mode = "all_images"
    /\ sub_image_count = 1
    /\ asin_list = << <<"U", "S", "@", "b">> >>
    /\ oss_objects = {sub_file(<<"b">>, US, 0)}
    /\ oss_raises = {}
    /\ failed_asins = asin_list
    /\ ~oss_result[1].success

(***************************************************************************)
(* Claims about verify_all                                                 *)
(***************************************************************************)
VerifyAllReported == va_pc = "done" /\ "success" \in DOMAIN va_result[1]

\* the check returned the dict of a connection that could not be made
NoClient(result) == "message" \in DOMAIN result

\* C11: verify_all reports success iff the database check and the
\* object-store check both report success; whenever it reports, both checks
\* have run, the database check first, also when the database check failed;
\* a check that could not acquire its client counts as unsuccessful.
C11_VerifyAllBothChecks ==
    /\ [](VerifyAllReported =>
            /\ db_pc = "done" /\ oss_pc = "done"
            /\ va_result[1].database = db_result[1]
            /\ va_result[1].oss = oss_result[1]
            /\ "success" \in DOMAIN db_result[1] /\ "success" \in DOMAIN oss_result[1]
            /\ va_result[1].success <=> (db_result[1].success /\ oss_result[1].success)
            /\ (NoClient(db_result[1]) \/ NoClient(oss_result[1])) => ~va_result[1].success)
    /\ [][(oss_pc = "start" /\ oss_pc' # "start") => (db_pc = "done" /\ db_pc' = "done")]_vars

\* C11 witness: the database client could not be acquired, the object-store
\* check ran all the same and succeeded, and the whole is a failure
C11_Witness ==
    /\ VerifyAllReported
    /\ NoClient(db_result[1])
    /\ asin_list # <<>>
    /\ "successful_asins" \in DOMAIN oss_result[1]
    /\ oss_result[1].success
    /\ ~va_result[1].success

(***************************************************************************)
(* Claims about the export                                                 *)
(***************************************************************************)
\* export_asin_data went through its loop and returned the result dict
Exported == ex_pc = "done" /\ "found_asins" \in DOMAIN export_result[1]

NoPageRaised == \A q \in 1..Len(ex_queries) : ~ex_queries[q].raised

\* the positions of the list whose identifier has a row with its code and site
WithRow == {k \in 1..Len(asin_list) : HasRow(asin_list[k])}

\* the file of an identifier was written, and the result lists it
FileWritten(id) ==
    /\ filename_of(id) \in Range(writes)
    /\ \E e \in 1..Len(exported_files) : exported_files[e].asin = id

\* a row whose full identifier is the requested identifier, as line 280 matches
HasKeyedRow(id) == \E r \in db_rows : row_dict(r).full_asin = id

\* what holds of the export whatever the identifiers' form: the identifiers
\* that are the full identifier of a row are written, the others are not
ExportWritesKeyedRows ==
    (Exported /\ NoPageRaised) =>
        /\ \A k \in 1..Len(asin_list) :
              HasKeyedRow(asin_list[k]) <=>
                  \E e \in 1..Len(exported_files) : exported_files[e].asin = asin_list[k]
        /\ export_result[1].found_asins
              = Cardinality({k \in 1..Len(asin_list) : HasKeyedRow(asin_list[k])})
        /\ export_result[1].success

\* C14: in export_asin_data a requested identifier with no matching row gets
\* no file and is not counted in found_asins (total_asins - found_asins is
\* the number of skipped identifiers), every other requested identifier, one
\* that has a matching row, gets its file, and the export is not a failure.
C14_MissingRowSkipped ==
    (Exported /\ NoPageRaised) =>
        /\ \A k \in 1..Len(asin_list) :
              IF HasRow(asin_list[k])
              THEN FileWritten(asin_list[k])
              ELSE filename_of(asin_list[k]) \notin Range(writes)
        /\ export_result[1].found_asins = Cardinality(WithRow)
        /\ export_result[1].total_asins - export_result[1].found_asins
              = Len(asin_list) - Cardinality(WithRow)
        /\ export_result[1].success

\* the pages of the fetch, raising or not, are consecutive and cover the list
FetchPaged ==
    /\ \A q \in 1..Len(ex_queries) :
          /\ ex_queries[q].first = (q - 1) * batch_size + 1
          /\ ex_queries[q].last - ex_queries[q].first + 1 <= batch_size
          /\ ex_queries[q].first <= ex_queries[q].last
    /\ \A k \in 1..Len(asin_list) :
          Cardinality({q \in 1..Len(ex_queries) :
                          ex_queries[q].first <= k /\ k <= ex_queries[q].last}) = 1

\* the positions of the list that were in a page whose query did not raise
InGoodPage ==
    {k \in 1..Len(asin_list) :
        \E q \in 1..Len(ex_queries) :
            ~ex_queries[q].raised /\ ex_queries[q].first <= k /\ k <= ex_queries[q].last}

\* the rows the pages that did not raise select
GoodRows ==
    {r \in db_rows : \E k \in InGoodPage :
                        r.asin = check_item(asin_list[k]).asin
                            /\ r.site = check_item(asin_list[k]).site}

\* the fetch is over, with a client
Fetched == ex_pc \in {"fetched", "done"} /\ ex_queries # <<>>

\* what holds of the fetch itself: every page queried, the rows of the pages
\* that did not raise returned, the scope torn down
FetchSkipsRaisingPages ==
    Fetched =>
        /\ FetchPaged
        /\ Range(all_data) = {row_dict(r) : r \in GoodRows}
        /\ DatabaseTornDown
        /\ scopes = <<>>

\* C15: in the exporter's fetch a query that raises for one page is skipped:
\* the remaining pages are still queried, the rows of the pages that did not
\* raise are returned and exported, no exception propagates and the database
\* scope is torn down.
C15_RaisingPageSkipped ==
    /\ Fetched =>
          /\ FetchPaged
          /\ Range(all_data) = {row_dict(r) : r \in GoodRows}
          /\ DatabaseTornDown
          /\ scopes = <<>>
    /\ Exported =>
          \A k \in InGoodPage : HasRow(asin_list[k]) => FileWritten(asin_list[k])

\* C18: within one export each output file SITE-CODE is written at most once
\* and not rewritten, also when an identifier occurs twice in the list; the
\* exported-file entries and the byte count count each file once.
C18_FileWrittenOnce ==
    /\ \A i \in 1..Len(writes), j \in 1..Len(writes) : i # j => writes[i] # writes[j]
    /\ \A i \in 1..Len(exported_files), j \in 1..Len(exported_files) :
          i # j => exported_files[i].filename # exported_files[j].filename

(***************************************************************************)
(* Claims about wait_for_completion                                        *)
(***************************************************************************)
\* the deadline the claims give, in seconds from start_time
Deadline == 30 * Len(asin_list) + 20

WaitStarted == wait_pc # "idle"

\* wait_for_completion returned a dict
WaitReturned == wait_pc = "done" /\ "completed" \in DOMAIN wait_result[1]

\* the latest verify_all cycle reported success
CycleSucceeded == VerifyAllReported /\ va_result[1].success

\* C12: wait_for_completion over N identifiers has the deadline 30*N + 20
\* seconds from its start; no verify_all cycle starts at or after the
\* deadline; no sleep is begun that is due to end after the deadline; when no
\* cycle succeeded the call returns completed = false.
C12_DeadlineRespected ==
    /\ [](WaitStarted => max_wait = Deadline)
    /\ [][check_count' # check_count =>
            (check_count' = check_count + 1 /\ now - start_time < Deadline)]_vars
    /\ [][(wait_pc = "checking" /\ wait_pc' = "loop") =>
            now + check_interval <= start_time + Deadline]_vars
    /\ []((WaitReturned /\ ~CycleSucceeded) =>
            (/\ ~wait_result[1].completed
             /\ ~wait_result[1].success
             /\ "message" \in DOMAIN wait_result[1]))

\* C12 witness: one identifier, several cycles, the last one running past
\* the deadline, and the timeout result
C12_Witness ==
    /\ WaitReturned
    /\ Len(asin_list) = 1
    /\ check_count >= 3
    /\ now - start_time > Deadline
    /\ ~wait_result[1].completed

\* C13: wait_for_completion calls the export once when, and only when, a
\* verify_all cycle reports success: after that cycle and before returning
\* completed = true; no cycle runs after a successful one; on the timeout
\* path the export is not called.
C13_ExportOnSuccessOnly ==
    /\ [](exports <= 1)
    /\ [][exports' # exports =>
            (/\ exports' = exports + 1
             /\ CycleSucceeded
             /\ wait_pc = "checking"
             /\ wait_result = <<>>)]_vars
    /\ [][(WaitStarted /\ CycleSucceeded) =>
            (check_count' = check_count /\ va_result' = va_result)]_vars
    /\ [](WaitReturned =>
            IF wait_result[1].completed
            THEN /\ CycleSucceeded
                 /\ exports = 1
                 /\ ex_pc = "done"
                 /\ wait_result[1].export = export_result[1]
            ELSE /\ ~CycleSucceeded
                 /\ exports = 0
                 /\ ex_pc = "idle")

\* C13 witness: the second cycle or a later one succeeds, the export runs and
\* writes the file, and completed = true is returned
C13_Witness ==
    /\ WaitReturned
    /\ wait_result[1].completed
    /\ check_count >= 2
    /\ exports = 1
    /\ Len(writes) = 1
    /\ wait_result[1].export.success

\* ceil(a / b), b > 0
CeilDiv(a, b) == (a + b - 1) \div b

\* C20: wait_for_completion terminates, with completed = true or the
\* timeout result when every verify_all call returned; it runs at least one
\* verify_all cycle, and at most ceil((30*N + 20) / check_interval) cycles
\* (as many when the checks take no time).
C20_WaitTerminates ==
    /\ <>(wait_pc = "done")
    /\ []((wait_pc = "done" /\ VerifyAllReported) => WaitReturned)
    /\ [](wait_pc = "done" => check_count >= 1)
    /\ [](WaitStarted => check_count <= CeilDiv(Deadline, check_interval))

\* C20 witness: one identifier, a check every 7 seconds, no check taking any
\* time: ceil(50 / 7) = 8 cycles and then the timeout result
C20_Witness ==
    /\ WaitReturned
    /\ ~wait_result[1].completed
    /\ Len(asin_list) = 1
    /\ check_interval = 7
    /\ now - start_time = (check_count - 1) * check_interval
    /\ check_count = CeilDiv(Deadline, check_interval)
    /\ check_count = 8

(***************************************************************************)
(* The command line                                                        *)
(***************************************************************************)
Exited == cli_pc = "exited"

\* the operation of the subcommand succeeded: the push (and, with --wait, the
\* wait and the export that follows it), the verification, the export, the
\* connection test
Succeeded ==
    CASE command = "push" ->
            /\ push_result # <<>>
            /\ push_result[1].success
            /\ wait_flag =>
                  /\ WaitReturned
                  /\ wait_result[1].completed
                  /\ wait_result[1].export.success
      [] command = "verify" -> VerifyAllReported /\ va_result[1].success
      [] command = "export" -> ex_pc = "done" /\ export_result[1].success
      [] command = "test" -> yielded # <<>> /\ yielded[1] # None

\* C16: each subcommand ends the process with exit code 0 if its operation
\* succeeded and with 1 on any failure or exception (the failed automatic
\* export after a wait included), and no exception leaves a handler.
C16_ExitCodes ==
    Exited =>
        /\ ~uncaught
        /\ exit_code = <<IF Succeeded THEN 0 ELSE 1>>

\* the client the scoped acquisition yielded is the falsy one
Yielded(client) == client = None

\* C17: a caller whose scoped acquisition yielded a falsy client performs no
\* operation on it, returns a failure or empty result and raises nothing:
\* verify_database and verify_oss issue no query and no lookup and return
\* success = false, the exporter's fetch issues no query and returns no row,
\* push_to_redis and test_connection send no command, leave the queue set
\* unchanged and return failure.
C17_FalsyClientSoftFailure ==
    [][ /\ (db_pc = "entered" /\ Yielded(Innermost.client)) =>
              /\ db_pc' = "done"
              /\ queries' = queries
              /\ ~db_result'[1].success
              /\ "raised" \notin DOMAIN db_result'[1]
        /\ (oss_pc = "entered" /\ Yielded(Innermost.client)) =>
              /\ oss_pc' = "done"
              /\ oss_k' = oss_k
              /\ successful_asins' = successful_asins
              /\ ~oss_result'[1].success
              /\ "raised" \notin DOMAIN oss_result'[1]
        /\ (ex_pc = "fetching" /\ Yielded(Innermost.client)) =>
              /\ ex_pc' = "fetched"
              /\ ex_queries' = <<>>
              /\ all_data' = <<>>
        /\ (yielded = <<>> /\ yielded' = <<None>>) =>
              /\ redis_commands' = redis_commands
              /\ redis_set' = redis_set
              /\ uncaught' = uncaught /\ caught' = caught
              /\ command = "push" =>
                    (push_result' # <<>> /\ ~push_result'[1].success)
              /\ command = "test" => exit_code' = <<1>>
      ]_vars

\* C17 witness: the push command got no queue client: push_to_redis returned
\* failure with no command sent, and the process ended with status 1
C17_Witness ==
    /\ command = "push"
    /\ Exited
    /\ yielded = <<None>>
    /\ formatted_data # <<>>
    /\ ~push_result[1].success
    /\ redis_commands = 0
    /\ exit_code = <<1>>

StillLive(i) ==
    /\ \E c \in live_clients : c.id = scopes[i].client
    /\ TunnelsAt(local_ports[scopes[i].res]) # {}

\* C21: a client yielded by a queue or database scope stays live (client
\* open, tunnel open) until that same scope exits, also when a second scope
\* for the same resource is entered and left inside it.
C21_LiveUntilOwnExit ==
    \A i \in 1..Len(scopes) :
        (scopes[i].res \in {"redis", "db"} /\ scopes[i].client # None) => StillLive(i)

(***************************************************************************)
(* The database check under other verification methods                     *)
(***************************************************************************)
\* verify_database returned a result whose success is True
DbReportedSuccess ==
    /\ db_pc = "done"
    /\ "success" \in DOMAIN db_result[1]
    /\ db_result[1].success

\* position k of the list was part of a query
LookedUp(k) == \E q \in 1..Len(queries) : queries[q].first <= k /\ k <= queries[q].last

\* what does hold: with method `existence` a reported success means that
\* every identifier of the list was looked up and has its row
SuccessByExistenceHasRows ==
    (DbReportedSuccess /\ verification_method = "existence") =>
        \A k \in 1..Len(asin_list) : LookedUp(k) /\ HasRow(asin_list[k])

\* C22: verify_database reports success only if the status table was queried
\* and every identifier of the list was found as a row; never when no
\* identifier was looked up, as under a method other than `existence`.
C22_SuccessOnlyIfLookedUp ==
    DbReportedSuccess =>
        /\ queries # <<>>
        /\ \A k \in 1..Len(asin_list) : LookedUp(k) /\ HasRow(asin_list[k])

(***************************************************************************)
(* The order of the push command                                           *)
(***************************************************************************)
\* a tunnel or a client was created, or a queue scope was entered
ConnectionOpened == next_id > 1 \/ yielded # <<>>

\* the push was confirmed, by -y or by an affirmative answer
PushConfirmed ==
    \/ yes
    \/ answer # <<>> /\ Lower(Strip(answer[1])) \in { <<"y">>, <<"y", "e", "s">>, <<"U+662F">> }

PushDeclined == ~yes /\ answer # <<>> /\ ~PushConfirmed

PushSucceeded == push_result # <<>> /\ push_result[1].success

\* C23: in the push command a queue connection is opened and the queue set
\* modified only after the file was found to exist and the push was
\* confirmed (by -y or an affirmative answer); a declined confirmation ends
\* the command as a failure with no connection opened; the wait loop is
\* entered only after a successful push.
C23_PushOrder ==
    /\ []((command = "push" /\ (ConnectionOpened \/ redis_commands > 0 \/ pushes > 0)) =>
              (file_exists /\ read_pc = "done" /\ PushConfirmed))
    /\ [][(command = "push" /\ redis_set' # redis_set) =>
              (file_exists /\ read_pc = "done" /\ PushConfirmed /\ cli_pc = "run")]_vars
    /\ []((command = "push" /\ PushDeclined) =>
              (Exited /\ exit_code = <<1>> /\ ~ConnectionOpened /\ redis_commands = 0))
    /\ []((command = "push" /\ (cli_pc = "wait" \/ wait_pc # "idle")) => PushSucceeded)

\* C23 witness: the user answered " Y", the push added to the queue set, and
\* the wait loop has begun
C23_Witness ==
    /\ command = "push"
    /\ ~yes
    /\ answer = << <<" ", "Y">> >>
    /\ PushSucceeded
    /\ push_result[1].added_count > 0
    /\ redis_commands = 3
    /\ wait_pc = "loop"
    /\ check_count >= 1

(***************************************************************************)
(* Poll cycles without a client                                            *)
(***************************************************************************)
\* the cycle's verify_all has returned, and its database check or its
\* object-store check had been yielded no client
NoClientCycle ==
    /\ wait_pc = "checking"
    /\ va_pc = "done"
    /\ VerifyAllReported
    /\ NoClient(va_result[1].database) \/ NoClient(va_result[1].oss)

\* no database scope is open in the wait: between cycles, and in a cycle
\* before and after its database check
OutsideDbScope ==
    \/ wait_pc \in {"loop", "done"}
    \/ wait_pc = "checking" /\ db_pc \in {"start", "done"}

\* C24: in wait_for_completion a poll cycle whose database or object-store
\* client could not be acquired is an unsuccessful cycle and nothing more:
\* no exception, no export, and then the sleep of check_interval and the next
\* cycle, or the timeout result at the deadline; every cycle makes its own
\* database connection and closes it.
C24_NoClientCycleGoesOn ==
    /\ [][/\ (wait_pc = "checking" /\ db_pc = "entered" /\ Innermost.client = None) =>
                (db_pc' = "done" /\ NoClient(db_result'[1]) /\ ~db_result'[1].success)
          /\ (wait_pc = "checking" /\ oss_pc = "entered" /\ Innermost.client = None) =>
                (oss_pc' = "done" /\ NoClient(oss_result'[1]) /\ ~oss_result'[1].success)
          /\ NoClientCycle =>
                /\ ~va_result[1].success
                /\ exports' = exports
                /\ \/ /\ wait_pc' = "loop"
                      /\ now' - now \in SleepTimes(check_interval)
                      /\ wait_result' = <<>>
                   \/ /\ wait_pc' = "done"
                      /\ Deadline - (now - start_time) <= check_interval
                      /\ "raised" \notin DOMAIN wait_result'[1]
                      /\ ~wait_result'[1].completed
          /\ (wait_pc = "checking" /\ db_pc = "start" /\ db_pc' = "entered") =>
                last_op'.result # "reused"
         ]_vars
    /\ [](OutsideDbScope => DatabaseTornDown)
    /\ NoClientCycle ~> ((wait_pc = "checking" /\ va_pc = "running") \/ WaitReturned)

\* C24 witness: a cycle without a database client is over, the sleep has
\* passed, nothing was exported and the loop is about to test its condition
C24_Witness ==
    /\ wait_pc = "loop"
    /\ check_count >= 1
    /\ VerifyAllReported
    /\ NoClient(va_result[1].database)
    /\ now - start_time >= check_interval
    /\ exports = 0
    /\ wait_result = <<>>
    /\ DatabaseTornDown

====
